---- MODULE Spec2Model ----
(***************************************************************************)
(* Model of the streaming response interpretation layer of the chat        *)
(* client: src/src/api.ts (invokeAgent, consumeStreamResponse,             *)
(* parseSseEvent, interpretParsedResponse, ...).                           *)
(*                                                                         *)
(* Text is a sequence of atoms.  An atom is an indivisible piece of text:  *)
(* "\n" and " " are the whitespace characters, "data:" is the five         *)
(* characters of the SSE field name, "[DONE]" is the terminator token, and *)
(* every other atom is either a complete JSON text (a key of JsonTexts)    *)
(* or a piece of plain text.  The code only ever cuts text at "\n" and at  *)
(* leading/trailing whitespace, so no operation looks inside an atom.      *)
(***************************************************************************)
EXTENDS Integers, Sequences, FiniteSets, TLC

(***************************************************************************)
(* Bounds of the model                                                     *)
(***************************************************************************)
\* number of frames in the text of an event stream
MaxFrames == 2

(***************************************************************************)
(* Strings                                                                 *)
(***************************************************************************)
Whitespace == {" ", "\n"}

RECURSIVE TrimStart(_)
TrimStart(s) ==
  IF s # <<>> /\ Head(s) \in Whitespace THEN TrimStart(Tail(s)) ELSE s

RECURSIVE TrimEnd(_)
TrimEnd(s) ==
  IF s # <<>> /\ s[Len(s)] \in Whitespace
    THEN TrimEnd(SubSeq(s, 1, Len(s) - 1))
    ELSE s

\* String.prototype.trim
Trim(s) == TrimEnd(TrimStart(s))

\* String.prototype.indexOf('\n\n'), 1-based; 0 when there is none
IndexOfBlankLine(s) ==
  IF \E i \in 1..(Len(s) - 1) : s[i] = "\n" /\ s[i + 1] = "\n"
    THEN CHOOSE i \in 1..(Len(s) - 1) :
           /\ s[i] = "\n" /\ s[i + 1] = "\n"
           /\ \A j \in 1..(i - 1) : ~(s[j] = "\n" /\ s[j + 1] = "\n")
    ELSE 0

\* String.prototype.split('\n')
RECURSIVE SplitLines(_)
SplitLines(s) ==
  IF \E i \in 1..Len(s) : s[i] = "\n"
    THEN LET i == CHOOSE i \in 1..Len(s) :
                    s[i] = "\n" /\ \A j \in 1..(i - 1) : s[j] # "\n"
         IN <<SubSeq(s, 1, i - 1)>> \o SplitLines(SubSeq(s, i + 1, Len(s)))
    ELSE <<s>>

\* Array.prototype.join(sep) on an array of strings
RECURSIVE JoinWith(_, _)
JoinWith(parts, sep) ==
  IF parts = <<>> THEN <<>>
  ELSE IF Len(parts) = 1 THEN parts[1]
  ELSE parts[1] \o sep \o JoinWith(Tail(parts), sep)

(***************************************************************************)
(* JavaScript values: a tag k and a value v                                *)
(***************************************************************************)
JUndef == [k |-> "undef", v |-> 0]
JNull == [k |-> "null", v |-> 0]
JStr(s) == [k |-> "str", v |-> s]
JNum(n) == [k |-> "num", v |-> n]
JBool(b) == [k |-> "bool", v |-> b]
JArr(a) == [k |-> "arr", v |-> a]
JObj(f) == [k |-> "obj", v |-> f]

\* typeof x === 'object'
TypeofObject(x) == x.k \in {"obj", "arr", "null"}

\* truthiness with null taken for a truthy value
TruthyButForUndefined(x) ==
  CASE x.k = "str" -> x.v # <<>>
    [] x.k = "num" -> x.v # 0
    [] x.k = "bool" -> x.v
    [] x.k = "undef" -> FALSE
    [] OTHER -> TRUE

\* truthiness of a value
Truthy(x) ==
  CASE x.k = "str" -> x.v # <<>>
    [] x.k = "num" -> x.v # 0
    [] x.k = "bool" -> x.v
    [] x.k \in {"undef", "null"} -> FALSE
    [] OTHER -> TRUE

\* key in x, for x an object or an array
HasKey(x, key) == x.k = "obj" /\ key \in DOMAIN x.v

\* x.key and x?.key, for x that is not null or undefined (or is, with ?.)
Get(x, key) == IF HasKey(x, key) THEN x.v[key] ELSE JUndef

\* typeof x === 'string' && x.trim().length > 0
NonBlankString(x) == x.k = "str" /\ Trim(x.v) # <<>>

(***************************************************************************)
(* JSON texts.  Each key of JsonTexts is one atom of text that is valid    *)
(* JSON; its value is what JSON.parse returns for it.  Every other atom    *)
(* ("[DONE]", "plain", "boom", ...) is text that is not JSON.              *)
(***************************************************************************)
AnswerMessage == JObj([answer |-> JStr(<<"A">>), sources |-> JArr(<<>>)])

JsonTexts ==
     "{type:chunk,content:a}" :>
        JObj([type |-> JStr(<<"chunk">>), content |-> JStr(<<"a">>)])
  @@ "{type:chunk,content:b}" :>
        JObj([type |-> JStr(<<"chunk">>), content |-> JStr(<<"b">>)])
  @@ "{type:thinking,content:t}" :>
        JObj([type |-> JStr(<<"thinking">>), content |-> JStr(<<"t">>)])
  @@ "{type:thinking,content:' '}" :>
        JObj([type |-> JStr(<<"thinking">>), content |-> JStr(<<" ">>)])
  @@ "{type:final,agentcore:{message:{answer:A,sources:[]}}}" :>
        JObj([type |-> JStr(<<"final">>),
              agentcore |-> JObj([message |-> AnswerMessage])])
  @@ "{type:final,agentcore:{message:{answer:''}}}" :>
        JObj([type |-> JStr(<<"final">>),
              agentcore |-> JObj([message |-> JObj([answer |-> JStr(<<>>)])])])
  @@ "{type:final}" :>
        JObj([type |-> JStr(<<"final">>)])
  @@ "{type:final,agentcore:{message:{answer:'No response'}}}" :>
        JObj([type |-> JStr(<<"final">>),
              agentcore |-> JObj([message |->
                JObj([answer |-> JStr(<<"No response">>)])])])
  @@ "{type:final,thinking:T,response:R}" :>
        JObj([type |-> JStr(<<"final">>), thinking |-> JStr(<<"T">>),
              response |-> JStr(<<"R">>)])
  @@ "{type:error,message:boom}" :>
        JObj([type |-> JStr(<<"error">>), message |-> JStr(<<"boom">>)])
  @@ "{type:error,message:'upstream stream error'}" :>
        JObj([type |-> JStr(<<"error">>),
              message |-> JStr(<<"upstream ", "stream error">>)])
  @@ "{type:error}" :>
        JObj([type |-> JStr(<<"error">>)])
  @@ "{type:thinking,content:''}" :>
        JObj([type |-> JStr(<<"thinking">>), content |-> JStr(<<>>)])
  @@ "{type:chunk,content:5}" :>
        JObj([type |-> JStr(<<"chunk">>), content |-> JNum(5)])
  @@ "{type:ping}" :>
        JObj([type |-> JStr(<<"ping">>)])
  @@ "{done:true}" :>
        JObj([done |-> JBool(TRUE)])
  @@ "{answer:A,sources:5}" :>
        JObj([answer |-> JStr(<<"A">>), sources |-> JNum(5)])
  @@ "{answer:''}" :> JObj([answer |-> JStr(<<>>)])
  @@ "{}" :> JObj(<<>>)
  @@ "[]" :> JArr(<<>>)
  @@ "5" :> JNum(5)
  @@ "'s'" :> JStr(<<"s">>)
  @@ "true" :> JBool(TRUE)
  @@ "null" :> JNull
  @@ "{output:{message:{answer:A,sources:[]}}}" :>
        JObj([output |-> JObj([message |-> AnswerMessage])])
  @@ "{response:R}" :>
        JObj([response |-> JStr(<<"R">>)])

\* JSON.parse(text): ok is FALSE when it throws.  Whitespace around the
\* one JSON value is allowed; anything else is a syntax error.
JSONparse(text) ==
  LET t == Trim(text)
  IN IF Len(t) = 1 /\ t[1] \in DOMAIN JsonTexts
       THEN [ok |-> TRUE, val |-> JsonTexts[t[1]]]
       ELSE [ok |-> FALSE, val |-> JUndef]

\* the elements of a finite set in some fixed order
RECURSIVE SetToSeq(_)
SetToSeq(S) ==
  IF S = {} THEN <<>>
  ELSE LET x == CHOOSE x \in S : TRUE IN <<x>> \o SetToSeq(S \ {x})

RECURSIVE Stringify(_)
RECURSIVE StringifyMembers(_, _)
RECURSIVE StringifyElements(_)

\* the members "key":value of an object, keys taken in the order ks
StringifyMembers(x, ks) ==
  IF ks = <<>> THEN <<>>
  ELSE LET key == Head(ks)
           rest == StringifyMembers(x, Tail(ks))
       IN IF x.v[key].k = "undef" THEN rest
          ELSE <<"\"", key, "\"", ":">> \o Stringify(x.v[key])
               \o (IF rest = <<>> THEN <<>> ELSE <<",">> \o rest)

StringifyElements(a) ==
  IF a = <<>> THEN <<>>
  ELSE (IF Head(a).k = "undef" THEN <<"null">> ELSE Stringify(Head(a)))
       \o (IF Tail(a) = <<>> THEN <<>> ELSE <<",">> \o StringifyElements(Tail(a)))

\* JSON.stringify(x) for x that is not undefined.  The members of an object
\* are written in one fixed order of its keys.
Stringify(x) ==
  CASE x.k = "str" -> <<"\"">> \o x.v \o <<"\"">>
    [] x.k = "num" -> <<ToString(x.v)>>
    [] x.k = "bool" -> IF x.v THEN <<"true">> ELSE <<"false">>
    [] x.k = "null" -> <<"null">>
    [] x.k = "arr" -> <<"[">> \o StringifyElements(x.v) \o <<"]">>
    [] x.k = "obj" -> <<"{">> \o StringifyMembers(x, SetToSeq(DOMAIN x.v)) \o <<"}">>

\* String(x): the conversion the Error constructor and string concatenation
\* apply to a value
RECURSIVE ToJsString(_)
ToJsString(x) ==
  CASE x.k = "str" -> x.v
    [] x.k = "num" -> <<ToString(x.v)>>
    [] x.k = "bool" -> IF x.v THEN <<"true">> ELSE <<"false">>
    [] x.k = "null" -> <<"null">>
    [] x.k = "undef" -> <<"undefined">>
    [] x.k = "arr" -> JoinWith([i \in 1..Len(x.v) |->
                                  IF x.v[i].k \in {"null", "undef"} THEN <<>>
                                  ELSE ToJsString(x.v[i])], <<",">>)
    [] x.k = "obj" -> <<"[object Object]">>

(***************************************************************************)
(* Session identifiers; a text is a sequence of characters here            *)
(***************************************************************************)
\* String.prototype.padEnd(n, ch) with a one-character fill
padEnd(s, n, ch) == s \o [i \in 1..(n - Len(s)) |-> ch]

\* createSessionId() without the padding of lines 232-234
createSessionIdUnpadded(randomComponent, now) ==
  <<"w", "e", "b", "_">> \o randomComponent \o <<"_">> \o now

\* createSessionId(), given the random component and the text of Date.now()
createSessionId(randomComponent, now) ==
  LET sessionId == <<"w", "e", "b", "_">> \o randomComponent \o <<"_">> \o now
  IN IF Len(sessionId) < 33 THEN padEnd(sessionId, 33, "0") ELSE sessionId

\* the text of n copies of a character
Repeat(ch, n) == [i \in 1..n |-> ch]

\* the random component and the timestamp of a call without req.sessionId
CallRandoms == {Repeat("c", 32)}
CallTimestamps == {Repeat("1", 13)}

(***************************************************************************)
(* The SSE frame parser                                                    *)
(***************************************************************************)
\* the data payload of a frame: the data: lines, trimmed and joined
DataLines(segment) ==
  LET lines == SplitLines(segment)
      trimmed == [i \in 1..Len(lines) |-> Trim(lines[i])]
      isData(line) == line # <<>> /\ Head(line) = "data:"
  IN [i \in 1..Len(SelectSeq(trimmed, isData)) |->
        Trim(Tail(SelectSeq(trimmed, isData)[i]))]

DataString(segment) == JoinWith(DataLines(segment), <<"\n">>)

\* parseSseEvent without the catch clause: a payload that is not JSON is
\* dropped
parseSseEventDropsMalformed(segment) ==
  LET dataString == DataString(segment)
      parsed == JSONparse(dataString)
  IN IF DataLines(segment) = <<>> THEN JNull
     ELSE IF dataString = <<>> THEN JNull
     ELSE IF dataString = <<"[DONE]">> THEN JObj([done |-> JBool(TRUE)])
     ELSE IF parsed.ok THEN parsed.val
     ELSE JNull

parseSseEvent(segment) ==
  LET dataString == DataString(segment)
      parsed == JSONparse(dataString)
  IN IF DataLines(segment) = <<>> THEN JNull
     ELSE IF dataString = <<>> THEN JNull
     ELSE IF dataString = <<"[DONE]">> THEN JObj([done |-> JBool(TRUE)])
     ELSE IF parsed.ok THEN parsed.val
     ELSE JObj([type |-> JStr(<<"chunk">>), content |-> JStr(dataString)])

(***************************************************************************)
(* The response envelope normalizer                                        *)
(***************************************************************************)
NoResponse == <<"No response">>

\* normalizeStructuredResponse with sources passed through as it is
normalizeStructuredResponseKeepsSources(data) ==
  LET candidate == IF Truthy(data) /\ TypeofObject(data) THEN data ELSE JObj(<<>>)
      field(name) == Get(candidate, name)
  IN JObj([answer |-> IF NonBlankString(field("answer"))
                        THEN field("answer") ELSE JUndef,
           sources |-> field("sources"),
           documents |-> IF field("documents").k = "arr"
                           THEN field("documents") ELSE JUndef,
           search_trace |-> IF field("search_trace").k = "arr"
                              THEN field("search_trace") ELSE JUndef,
           methodology |-> IF field("methodology").k = "str"
                             THEN field("methodology") ELSE JUndef,
           limitations |-> IF field("limitations").k = "str"
                             THEN field("limitations") ELSE JUndef])

normalizeStructuredResponse(data) ==
  LET candidate == IF Truthy(data) /\ TypeofObject(data) THEN data ELSE JObj(<<>>)
      field(name) == Get(candidate, name)
  IN JObj([answer |-> IF NonBlankString(field("answer"))
                        THEN field("answer") ELSE JUndef,
           sources |-> IF field("sources").k = "arr"
                         THEN field("sources") ELSE JArr(<<>>),
           documents |-> IF field("documents").k = "arr"
                           THEN field("documents") ELSE JUndef,
           search_trace |-> IF field("search_trace").k = "arr"
                              THEN field("search_trace") ELSE JUndef,
           methodology |-> IF field("methodology").k = "str"
                             THEN field("methodology") ELSE JUndef,
           limitations |-> IF field("limitations").k = "str"
                             THEN field("limitations") ELSE JUndef])

\* rule 1 for an output.message that is an object
MessageObjectRule(message) ==
  LET answerValue == Get(message, "answer")
      normalized == normalizeStructuredResponse(message)
  IN IF NonBlankString(answerValue)
       THEN [reply |-> answerValue.v, structuredData |-> normalized]
     ELSE IF HasKey(message, "raw") /\ Get(message, "raw").k = "str"
       THEN [reply |-> Get(message, "raw").v, structuredData |-> JUndef]
     ELSE IF HasKey(message, "answer")
       THEN IF Truthy(Get(normalized, "answer"))
              THEN [reply |-> Get(normalized, "answer").v,
                    structuredData |-> normalized]
              ELSE [reply |-> NoResponse, structuredData |-> JUndef]
     ELSE [reply |-> Stringify(message), structuredData |-> JUndef]

\* rule 3 for a response that is an object
ResponseObjectRule(response) ==
  LET answerValue == Get(response, "answer")
      normalized == normalizeStructuredResponse(response)
  IN IF NonBlankString(answerValue)
       THEN [reply |-> answerValue.v, structuredData |-> normalized]
     ELSE IF HasKey(response, "answer")
       THEN IF Truthy(Get(normalized, "answer"))
              THEN [reply |-> Get(normalized, "answer").v,
                    structuredData |-> normalized]
              ELSE [reply |-> NoResponse, structuredData |-> JUndef]
     ELSE [reply |-> Stringify(response), structuredData |-> JUndef]

\* interpretParsedResponse with the rules for response tried before the rule
\* for output.message
interpretParsedResponseResponseFirst(parsed) ==
  LET output == Get(parsed, "output")
      response == Get(parsed, "response")
      message == Get(output, "message")
      maybeJson == JSONparse(response.v)
      normalized == normalizeStructuredResponse(maybeJson.val)
      r == IF Truthy(parsed) /\ TypeofObject(parsed)
             THEN IF response.k = "str"
                    THEN IF /\ maybeJson.ok
                            /\ Truthy(maybeJson.val) /\ TypeofObject(maybeJson.val)
                            /\ HasKey(maybeJson.val, "answer")
                            /\ Truthy(Get(normalized, "answer"))
                           THEN [reply |-> Get(normalized, "answer").v,
                                 structuredData |-> normalized]
                           ELSE [reply |-> response.v, structuredData |-> JUndef]
                  ELSE IF Truthy(response) /\ TypeofObject(response)
                    THEN ResponseObjectRule(response)
                  ELSE IF Truthy(output) /\ TypeofObject(output) /\ HasKey(output, "message")
                    THEN IF message.k = "str"
                           THEN [reply |-> message.v, structuredData |-> JUndef]
                         ELSE IF Truthy(message) /\ TypeofObject(message)
                           THEN MessageObjectRule(message)
                         ELSE [reply |-> NoResponse, structuredData |-> JUndef]
                  ELSE [reply |-> Stringify(parsed), structuredData |-> JUndef]
           ELSE IF parsed.k = "str"
             THEN [reply |-> parsed.v, structuredData |-> JUndef]
           ELSE [reply |-> NoResponse, structuredData |-> JUndef]
  IN [reply |-> r.reply, structuredData |-> r.structuredData, raw |-> parsed]

interpretParsedResponse(parsed) ==
  LET output == Get(parsed, "output")
      response == Get(parsed, "response")
      message == Get(output, "message")
      maybeJson == JSONparse(response.v)
      normalized == normalizeStructuredResponse(maybeJson.val)
      r == IF Truthy(parsed) /\ TypeofObject(parsed)
             THEN IF Truthy(output) /\ TypeofObject(output) /\ HasKey(output, "message")
                    THEN IF message.k = "str"
                           THEN [reply |-> message.v, structuredData |-> JUndef]
                         ELSE IF Truthy(message) /\ TypeofObject(message)
                           THEN MessageObjectRule(message)
                         ELSE [reply |-> NoResponse, structuredData |-> JUndef]
                  ELSE IF response.k = "str"
                    THEN IF /\ maybeJson.ok
                            /\ Truthy(maybeJson.val) /\ TypeofObject(maybeJson.val)
                            /\ HasKey(maybeJson.val, "answer")
                            /\ Truthy(Get(normalized, "answer"))
                           THEN [reply |-> Get(normalized, "answer").v,
                                 structuredData |-> normalized]
                           ELSE [reply |-> response.v, structuredData |-> JUndef]
                  ELSE IF Truthy(response) /\ TypeofObject(response)
                    THEN ResponseObjectRule(response)
                  ELSE [reply |-> Stringify(parsed), structuredData |-> JUndef]
           ELSE IF parsed.k = "str"
             THEN [reply |-> parsed.v, structuredData |-> JUndef]
           ELSE [reply |-> NoResponse, structuredData |-> JUndef]
  IN [reply |-> r.reply, structuredData |-> r.structuredData, raw |-> parsed]

\* x.key raises a TypeError when x is null or undefined
ReadRaises(x) == x.k \in {"undef", "null"}

\* key in x raises a TypeError when x is not an object
InRaises(x) == x.k \notin {"obj", "arr"}

\* whether normalizeStructuredResponse raises: it reads the fields of
\* candidate; trim() is applied only behind typeof === 'string'
normalizeStructuredResponseThrows(data) ==
  LET candidate == IF Truthy(data) /\ TypeofObject(data) THEN data ELSE JObj(<<>>)
  IN ReadRaises(candidate)

\* whether rule 1 raises for an output.message that passed the test of
\* line 506
MessageObjectRuleThrows(message) ==
  \/ ReadRaises(message)
  \/ IF NonBlankString(Get(message, "answer"))
       THEN normalizeStructuredResponseThrows(message)
       ELSE \/ InRaises(message)
            \/ /\ ~(HasKey(message, "raw") /\ Get(message, "raw").k = "str")
               /\ HasKey(message, "answer")
               /\ normalizeStructuredResponseThrows(message)

\* whether rule 3 raises for a response that passed the test of line 540
ResponseObjectRuleThrows(response) ==
  \/ ReadRaises(response)
  \/ IF NonBlankString(Get(response, "answer"))
       THEN normalizeStructuredResponseThrows(response)
       ELSE \/ InRaises(response)
            \/ /\ HasKey(response, "answer")
               /\ normalizeStructuredResponseThrows(response)

\* whether interpretParsedResponse raises: it follows the branches of
\* interpretParsedResponse and tells whether a field is read from null or
\* undefined or `in` is applied to a value that is not an object; what is
\* raised inside the try block of lines 528-539 is caught there
interpretParsedResponseThrows(parsed) ==
  LET output == Get(parsed, "output")
      response == Get(parsed, "response")
      message == Get(output, "message")
      others ==
        IF response.k = "str" THEN FALSE
        ELSE IF Truthy(response) /\ TypeofObject(response)
          THEN ResponseObjectRuleThrows(response)
        ELSE FALSE
  IN IF Truthy(parsed) /\ TypeofObject(parsed)
       THEN \/ ReadRaises(parsed)
            \/ IF Truthy(output) /\ TypeofObject(output)
                 THEN \/ InRaises(output)
                      \/ IF HasKey(output, "message")
                           THEN IF message.k = "str" THEN FALSE
                                ELSE IF Truthy(message) /\ TypeofObject(message)
                                  THEN MessageObjectRuleThrows(message)
                                ELSE FALSE
                           ELSE others
                 ELSE others
     ELSE FALSE

\* safeJsonParse: the empty body is {}, a body that is not JSON is itself
safeJsonParse(text) ==
  IF text = <<>> THEN JObj(<<>>)
  ELSE IF JSONparse(text).ok THEN JSONparse(text).val
  ELSE JStr(text)

\* the first candidate location of the final payload holding a non-blank
\* string, or undefined
extractThinking(finalPayload) ==
  LET agentcore == Get(finalPayload, "agentcore")
      response == Get(finalPayload, "response")
      candidates == <<
        Get(finalPayload, "thinking"),
        Get(finalPayload, "reasoning"),
        Get(agentcore, "thinking"),
        Get(agentcore, "reasoning"),
        Get(Get(agentcore, "metadata"), "thinking"),
        Get(Get(agentcore, "metadata"), "reasoning"),
        Get(Get(agentcore, "output"), "thinking"),
        Get(Get(agentcore, "output"), "reasoning"),
        Get(response, "thinking"),
        Get(response, "reasoning"),
        Get(Get(response, "metadata"), "thinking"),
        Get(Get(response, "metadata"), "reasoning") >>
      good == SelectSeq(candidates, NonBlankString)
  IN IF ~(Truthy(finalPayload) /\ TypeofObject(finalPayload)) THEN JUndef
     ELSE IF good = <<>> THEN JUndef
     ELSE Head(good)

(***************************************************************************)
(* consumeStreamResponse.  Its locals and the callback log are gathered in *)
(* a record c:                                                             *)
(*   buffer, aggregated, finalPayload, thinkingBuffer, thinkingFinalized   *)
(*                  the locals of consumeStreamResponse                    *)
(*   calls          the callback invocations made so far, in order         *)
(*   thrown, error  whether an exception is propagating, and its message   *)
(*   cause          what threw: "read" (reader.read() rejected), "event"   *)
(*                  (an error event with a message), "eventNoMessage" (an  *)
(*                  error event without one) or "dispatch" (the dispatch   *)
(*                  of a frame raised a TypeError); "none" if nothing did  *)
(*   ended          the reader has reported the end of the stream          *)
(*   log            one entry per frame handed to parseSseEvent: its text, *)
(*                  the number of calls and the accumulated chunk text     *)
(*                  before and after its dispatch, whether the dispatch    *)
(*                  threw, and whether it was parsed after the end of the  *)
(*                  stream                                                 *)
(*   doneSeen       a frame with payload [DONE] has been parsed            *)
(*   lateEffects    number of frames parsed after that one that invoked a  *)
(*                  callback, stashed a final payload or threw             *)
(***************************************************************************)
ChunkCall(text) ==
  [fn |-> "onChunk", kind |-> "chunk", text |-> text, done |-> FALSE]
ThinkingDelta(text) ==
  [fn |-> "onThinking", kind |-> "delta", text |-> text, done |-> FALSE]
ThinkingReplaceDone(text) ==
  [fn |-> "onThinking", kind |-> "replace", text |-> text, done |-> TRUE]
ThinkingDone ==
  [fn |-> "onThinking", kind |-> "none", text |-> <<>>, done |-> TRUE]

\* notifies only when there is a text to carry
notifyThinkingDoneOnlyText(c, finalText, onThinking) ==
  IF c.thinkingFinalized THEN c
  ELSE [c EXCEPT
          !.calls = IF onThinking /\ Truthy(finalText) /\ Trim(finalText.v) # <<>>
                      THEN Append(@, ThinkingReplaceDone(finalText.v))
                      ELSE @,
          !.thinkingFinalized = TRUE]

\* finalText is a string or undefined; onThinking tells whether the caller
\* supplied the callback
notifyThinkingDone(c, finalText, onThinking) ==
  IF c.thinkingFinalized THEN c
  ELSE [c EXCEPT
          !.calls = IF ~onThinking THEN @
                    ELSE IF Truthy(finalText) /\ Trim(finalText.v) # <<>>
                      THEN Append(@, ThinkingReplaceDone(finalText.v))
                    ELSE Append(@, ThinkingDone),
          !.thinkingFinalized = TRUE]

\* the message of the TypeError of: 'done' in event, for a primitive event
InOperatorError(event) ==
  <<"Cannot use 'in' operator to search for 'done' in ">> \o ToJsString(event)

\* a chunk event: the text is kept only, instead of appended
DispatchChunkOverwrites(c, content) ==
  [c EXCEPT !.aggregated = content,
            !.calls = Append(@, ChunkCall(content))]

\* a chunk event: the text is accumulated and passed to onChunk
DispatchChunk(c, content) ==
  [c EXCEPT !.aggregated = @ \o content,
            !.calls = Append(@, ChunkCall(content))]

\* the dispatch of a frame whose error event notifies the end of the
\* thinking and lets the loop go on
DispatchErrorGoesOn(c, event, onThinking) ==
  LET type == Get(event, "type")
      content == Get(event, "content")
  IN IF ~(event.k \in {"obj", "arr"})
       THEN [c EXCEPT !.thrown = TRUE, !.error = InOperatorError(event),
                      !.cause = "dispatch"]
     ELSE IF HasKey(event, "done") /\ Truthy(Get(event, "done"))
       THEN c
     ELSE IF type = JStr(<<"thinking">>)
       THEN IF content.k = "str" /\ Truthy(content)
              THEN [c EXCEPT
                      !.thinkingBuffer = @ \o content.v,
                      !.calls = IF onThinking
                                  THEN Append(@, ThinkingDelta(content.v))
                                  ELSE @]
              ELSE c
     ELSE IF type = JStr(<<"chunk">>) /\ content.k = "str"
       THEN DispatchChunk(c, content.v)
     ELSE IF type = JStr(<<"final">>)
       THEN [c EXCEPT !.finalPayload = event]
     ELSE IF type = JStr(<<"error">>)
       THEN notifyThinkingDone(c, JUndef, onThinking)
     ELSE c

\* one frame, already parsed, dispatched by the body of the while loop
Dispatch(c, event, onThinking) ==
  LET type == Get(event, "type")
      content == Get(event, "content")
      message == Get(event, "message")
  IN IF ~(event.k \in {"obj", "arr"})
       THEN [c EXCEPT !.thrown = TRUE, !.error = InOperatorError(event),
                      !.cause = "dispatch"]
     ELSE IF HasKey(event, "done") /\ Truthy(Get(event, "done"))
       THEN c
     ELSE IF type = JStr(<<"thinking">>)
       THEN IF content.k = "str" /\ Truthy(content)
              THEN [c EXCEPT
                      !.thinkingBuffer = @ \o content.v,
                      !.calls = IF onThinking
                                  THEN Append(@, ThinkingDelta(content.v))
                                  ELSE @]
              ELSE c
     ELSE IF type = JStr(<<"chunk">>) /\ content.k = "str"
       THEN DispatchChunk(c, content.v)
     ELSE IF type = JStr(<<"final">>)
       THEN [c EXCEPT !.finalPayload = event]
     ELSE IF type = JStr(<<"error">>)
       THEN [notifyThinkingDone(c, JUndef, onThinking) EXCEPT
               !.thrown = TRUE,
               !.error = IF Truthy(message) THEN ToJsString(message)
                         ELSE <<"Stream error">>,
               !.cause = IF Truthy(message) THEN "event" ELSE "eventNoMessage"]
     ELSE c

\* what a dispatch changed that a caller can observe
Effects(c) ==
  <<c.calls, c.aggregated, c.thinkingBuffer, c.finalPayload, c.thrown>>

\* the log entry of a frame: before is the record when the frame is handed
\* to parseSseEvent, after is the record when its dispatch is over
LogEntry(segment, before, after) ==
  [segment |-> segment,
   callsBefore |-> Len(before.calls), callsAfter |-> Len(after.calls),
   aggregatedBefore |-> before.aggregated, aggregatedAfter |-> after.aggregated,
   threw |-> after.thrown, atEnd |-> before.ended]

RECURSIVE consume(_, _)
consume(c, onThinking) ==
  LET index == IndexOfBlankLine(c.buffer)
      rawEvent == Trim(SubSeq(c.buffer, 1, index - 1))
      c1 == [c EXCEPT !.buffer = SubSeq(@, index + 2, Len(@))]
      event == parseSseEvent(rawEvent)
      c2 == Dispatch(c1, event, onThinking)
      c3 == [c2 EXCEPT
               !.log = Append(@, LogEntry(rawEvent, c1, c2)),
               !.doneSeen = @ \/ DataString(rawEvent) = <<"[DONE]">>,
               !.lateEffects = IF c.doneSeen /\ Effects(c2) # Effects(c1)
                                 THEN @ + 1 ELSE @]
  IN IF index = 0 THEN c
     ELSE IF rawEvent = <<>> THEN consume(c1, onThinking)
     ELSE IF ~Truthy(event)
       THEN consume([c1 EXCEPT !.log = Append(@, LogEntry(rawEvent, c1, c1))],
                    onThinking)
     ELSE IF c3.thrown THEN c3
     ELSE consume(c3, onThinking)

\* the state of the locals when consumeStreamResponse starts
NewDrain ==
  [buffer |-> <<>>, aggregated |-> <<>>, finalPayload |-> JUndef,
   thinkingBuffer |-> <<>>, thinkingFinalized |-> FALSE,
   calls |-> <<>>, thrown |-> FALSE, error |-> <<>>, cause |-> "none",
   ended |-> FALSE, log |-> <<>>,
   doneSeen |-> FALSE, lateEffects |-> 0]

\* the end of the stream without the flush of lines 423-426: what is left
\* in the buffer is dropped
FlushTailDropsBuffer(c, onThinking) == [c EXCEPT !.ended = TRUE]

\* the statements after the read loop, up to the flush of a last frame that
\* had no blank line after it
FlushTail(c, onThinking) ==
  IF Trim(c.buffer) # <<>>
    THEN consume([c EXCEPT !.buffer = @ \o <<"\n", "\n">>, !.ended = TRUE],
                 onThinking)
    ELSE [c EXCEPT !.ended = TRUE]

\* the envelope built from a final payload and handed to the normalizer
Synthetic(finalPayload) ==
  JObj([output |-> Get(finalPayload, "agentcore"),
        response |-> Get(finalPayload, "response")])

\* the accumulated chunk text always wins when there is some
FinalReplyPrefersChunks(c) ==
  IF c.aggregated # <<>> THEN c.aggregated
  ELSE interpretParsedResponse(Synthetic(c.finalPayload)).reply

\* the reply when a final payload was stashed: the normalized envelope,
\* unless it is empty or the placeholder and chunk text was accumulated
FinalReply(c) ==
  LET interpreted == interpretParsedResponse(Synthetic(c.finalPayload))
  IN IF c.aggregated # <<>>
        /\ (interpreted.reply = <<>> \/ interpreted.reply = NoResponse)
       THEN c.aggregated ELSE interpreted.reply

\* the accumulated deltas, whatever the final payload holds
FinalThinkingBufferOnly(c) == JStr(c.thinkingBuffer)

\* extractThinking(finalPayload) ?? thinkingBuffer
FinalThinking(c) ==
  LET extracted == extractThinking(c.finalPayload)
  IN IF extracted.k \in {"undef", "null"} THEN JStr(c.thinkingBuffer)
     ELSE extracted

\* the ChatResponse consumeStreamResponse returns, and the record c after
\* the final thinking notification; used when FlushTail did not throw
Finish(c, onThinking) ==
  LET interpreted == interpretParsedResponse(Synthetic(c.finalPayload))
      notify(text) == IF onThinking THEN notifyThinkingDone(c, text, TRUE) ELSE c
  IN IF Truthy(c.finalPayload)
       THEN [c |-> notify(FinalThinking(c)),
             response |-> [reply |-> FinalReply(c),
                           structuredData |-> interpreted.structuredData,
                           raw |-> c.finalPayload]]
     ELSE IF c.aggregated # <<>>
       THEN [c |-> notify(JStr(c.thinkingBuffer)),
             response |-> [reply |-> c.aggregated, structuredData |-> JUndef,
                           raw |-> JStr(c.aggregated)]]
     ELSE [c |-> notify(JStr(c.thinkingBuffer)),
           response |-> [reply |-> NoResponse, structuredData |-> JUndef,
                         raw |-> JNull]]

(***************************************************************************)
(* What the collaborators can answer: the session provider, the HTTP       *)
(* endpoint and the byte stream of an event-stream response                *)
(***************************************************************************)
\* payloads a data: line of the stream can carry
StreamPayloads ==
  { "{type:chunk,content:a}", "{type:chunk,content:b}",
    "{type:thinking,content:t}", "{type:thinking,content:' '}",
    "{type:final,agentcore:{message:{answer:A,sources:[]}}}",
    "{type:final,agentcore:{message:{answer:''}}}",
    "{type:final}", "{type:final,thinking:T,response:R}",
    "{type:error,message:boom}",
    "{type:error,message:'upstream stream error'}", "{type:error}",
    "{type:ping}", "{done:true}", "[]", "5", "'s'", "null",
    "[DONE]", "plain" }

\* the text of one frame: a data: line and the blank line that ends it
Frame(payload) == <<"data:", payload, "\n", "\n">>

RECURSIVE WiresOf(_)
\* the texts made of exactly n frames
WiresOf(n) ==
  IF n = 0 THEN {<<>>}
  ELSE {w \o Frame(p) : w \in WiresOf(n - 1), p \in StreamPayloads}

\* the texts an event-stream response can carry
Wires == UNION {WiresOf(n) : n \in 0..MaxFrames}

\* frames that exercise the frame parser: data lines with and without
\* payload, with surrounding blanks, several data lines, a comment line
ParserFrames ==
  { Frame("{type:chunk,content:a}"), Frame("{type:chunk,content:b}"),
    Frame("{type:thinking,content:t}"), Frame("{type:thinking,content:''}"),
    Frame("{type:chunk,content:5}"), Frame("[DONE]"), Frame("plain"),
    <<"data:", "\n", "\n">>,
    <<" ", "data:", " ", "plain", " ", "\n", "\n">>,
    <<"data:", "plain", "\n", "data:", "more", "\n", "\n">>,
    <<":keepalive", "\n", "\n">> }

RECURSIVE ParserWiresOf(_)
ParserWiresOf(n) ==
  IF n = 0 THEN {<<>>}
  ELSE {w \o f : w \in ParserWiresOf(n - 1), f \in ParserFrames}

\* the texts of the event stream in the specification of the frame parser
ParserWires == UNION {ParserWiresOf(n) : n \in 0..MaxFrames}

\* bodies of a response that is read as a whole
Bodies ==
  { <<>>, <<"plain">>, <<"{output:{message:{answer:A,sources:[]}}}">>,
    <<"{response:R}">> }

Statuses == {200, 400, 404, 500}

\* messages of the error a failing read of the stream rejects with
ReadErrors == { <<"network error">>, <<"Response ended prematurely">> }

\* Response.ok
Ok(status) == status >= 200 /\ status <= 299

\* /response ended prematurely/i.test(msg) || /stream error/i.test(msg)
IsStreamBreakdown(msg) ==
  \E i \in 1..Len(msg) :
    msg[i] \in { "Response ended prematurely", "response ended prematurely",
                 "Stream error", "stream error" }

HttpStatusText(status) == <<"HTTP ", ToString(status)>>

\* a || b on strings
OrElse(a, b) == IF a # <<>> THEN a ELSE b

(***************************************************************************)
(* One call of invokeAgent                                                 *)
(***************************************************************************)
VARIABLES
  pc,          \* where the call is: idle, auth, fetch, drain, retry, settled
  options,     \* which of onChunk and onThinking the caller supplied
  requests,    \* the HTTP requests issued so far, in order
  responses,   \* the HTTP responses received so far, in order
  drain,       \* the record c of consumeStreamResponse
  wire, pos,   \* the text of the event stream and how much of it was read
  retryOf,     \* why the retry was issued: "404", "400" or "stream"
  fallbackMsg, \* the message the retry falls back on when its body is empty
  outcome,     \* how the call settled
  token,       \* what the session provider yielded: "unset" before it is
               \* asked, then "absent", "empty" or "present"
  req,         \* the ChatRequest of the call: its sessionId
  sessionId,   \* the constant sessionId of invokeAgent (line 268)
  sent,        \* the runtime session header of every request issued since
               \* the app was mounted, with the number of resets completed
               \* when it was issued
  app,         \* the state of the App component
  input,       \* the argument of a function applied on its own
  output       \* its result

vars ==
  <<pc, options, requests, responses, drain, wire, pos, retryOf, fallbackMsg,
    outcome, token, req, sessionId, sent, app, input, output>>

Pending ==
  [state |-> "pending", reply |-> <<>>, structuredData |-> JUndef,
   raw |-> JUndef, error |-> <<>>]

Resolved(response) ==
  [state |-> "resolved", reply |-> response.reply,
   structuredData |-> response.structuredData, raw |-> response.raw,
   error |-> <<>>]

Rejected(message) ==
  [state |-> "rejected", reply |-> <<>>, structuredData |-> JUndef,
   raw |-> JUndef, error |-> message]

\* invokeAgent is called on its own, without the App component
Unmounted ==
  [mounted |-> FALSE, sessionId |-> <<>>, loading |-> FALSE,
   resetting |-> FALSE, dev |-> FALSE, resets |-> 0, turns |-> 0]

\* an entry of sent: the header value and the number of resets completed
Sent(id) == [sessionId |-> id, epoch |-> app.resets]

\* req.sessionId ?? createSessionId()
CallSessionIds ==
  IF req.sessionId.k \in {"undef", "null"}
    THEN {createSessionId(r, now) : r \in CallRandoms, now \in CallTimestamps}
    ELSE {req.sessionId.v}

Accept == IF options.onChunk THEN "text/event-stream" ELSE "application/json"

\* a request: its Accept header and whether the body has stream: true
Request(accept, stream) == [accept |-> accept, stream |-> stream]

\* a response: its status, how it is read ("stream": by the drain, "body":
\* as a whole, "unread": not at all) and the body text when read as a whole
Response(status, kind, body) == [status |-> status, kind |-> kind, body |-> body]

Init ==
  /\ pc = "idle"
  /\ options = [onChunk |-> FALSE, onThinking |-> FALSE]
  /\ requests = <<>>
  /\ responses = <<>>
  /\ drain = NewDrain
  /\ wire = <<>>
  /\ pos = 0
  /\ retryOf = "none"
  /\ fallbackMsg = <<>>
  /\ outcome = Pending
  /\ token = "unset"
  /\ req = [sessionId |-> JUndef]
  /\ sessionId = <<>>
  /\ sent = <<>>
  /\ app = Unmounted
  /\ input = JUndef
  /\ output = JUndef

\* invokeAgent(req, options) is called and awaits fetchAuthSession()
Invoke ==
  /\ pc = "idle"
  /\ ~app.mounted
  /\ \E oc \in BOOLEAN, ot \in BOOLEAN :
       options' = [onChunk |-> oc, onThinking |-> ot]
  /\ req' = [sessionId |-> JUndef]
  /\ pc' = "auth"
  /\ UNCHANGED <<requests, sent, responses, drain, wire, pos, retryOf, fallbackMsg, outcome>>
  /\ UNCHANGED <<token, sessionId, app, input, output>>

\* the token is tested only after the first request has been issued
TokenMissingAfterRequest ==
  /\ pc = "auth"
  /\ \E t \in {"absent", "empty"} : token' = t
  /\ requests' = Append(requests, Request(Accept, options.onChunk))
  /\ pc' = "settled"
  /\ outcome' = Rejected(<<"Unable to acquire access token for AgentCore invocation">>)
  /\ UNCHANGED <<options, sent, responses, drain, wire, pos, retryOf, fallbackMsg>>
  /\ UNCHANGED <<req, sessionId, app, input, output>>

\* the session has no access token
TokenMissing ==
  /\ pc = "auth"
  /\ \E t \in {"absent", "empty"} : token' = t
  /\ pc' = "settled"
  /\ outcome' = Rejected(<<"Unable to acquire access token for AgentCore invocation">>)
  /\ UNCHANGED <<options, requests, sent, responses, drain, wire, pos, retryOf, fallbackMsg>>
  /\ UNCHANGED <<req, sessionId, app, input, output>>

\* the session has a token: the first request is issued
FirstFetch ==
  /\ pc = "auth"
  /\ token' = "present"
  /\ \E id \in CallSessionIds :
       /\ sessionId' = id
       /\ sent' = Append(sent, Sent(id))
  /\ requests' = Append(requests, Request(Accept, options.onChunk))
  /\ pc' = "fetch"
  /\ UNCHANGED <<options, responses, drain, wire, pos, retryOf, fallbackMsg, outcome>>
  /\ UNCHANGED <<req, app, input, output>>

\* fetch rejects (no response at all), on the first request or on the retry
FetchRejects ==
  /\ pc \in {"fetch", "retry"}
  /\ pc' = "settled"
  /\ outcome' = Rejected(<<"Failed to fetch">>)
  /\ UNCHANGED <<options, requests, sent, responses, drain, wire, pos, retryOf, fallbackMsg>>
  /\ UNCHANGED <<token, req, sessionId, app, input, output>>

\* the retry keeps the stream flag of the first attempt
IssueRetryKeepsStreamFlag(why, msg) ==
  /\ requests' = Append(requests, Request("application/json", options.onChunk))
  /\ sent' = Append(sent, Sent(sessionId))
  /\ retryOf' = why
  /\ fallbackMsg' = msg
  /\ pc' = "retry"

\* the retry of every fallback: Accept: application/json, no stream flag
IssueRetry(why, msg) ==
  /\ requests' = Append(requests, Request("application/json", FALSE))
  /\ sent' = Append(sent, Sent(sessionId))
  /\ retryOf' = why
  /\ fallbackMsg' = msg
  /\ pc' = "retry"

\* the streaming attempt got 404: retry without streaming
Respond404Streaming ==
  /\ pc = "fetch"
  /\ Accept = "text/event-stream"
  /\ responses' = Append(responses, Response(404, "unread", <<>>))
  /\ IssueRetry("404", <<>>)
  /\ UNCHANGED <<options, drain, wire, pos, outcome>>
  /\ UNCHANGED <<token, req, sessionId, app, input, output>>

\* the streaming attempt got 400: read the error body, retry without streaming
Respond400Streaming ==
  /\ pc = "fetch"
  /\ Accept = "text/event-stream"
  /\ \E errorBody \in Bodies :
       /\ responses' = Append(responses, Response(400, "body", errorBody))
       /\ IssueRetry("400", errorBody)
  /\ UNCHANGED <<options, drain, wire, pos, outcome>>
  /\ UNCHANGED <<token, req, sessionId, app, input, output>>

\* a failing response rejected with the HTTP status description whatever
\* its body
RespondErrorIgnoresBody ==
  /\ pc = "fetch"
  /\ \E status \in Statuses, message \in Bodies :
       /\ status >= 400
       /\ ~(status \in {400, 404} /\ Accept = "text/event-stream")
       /\ responses' = Append(responses, Response(status, "body", message))
       /\ outcome' = Rejected(HttpStatusText(status))
  /\ pc' = "settled"
  /\ UNCHANGED <<options, requests, sent, drain, wire, pos, retryOf, fallbackMsg>>
  /\ UNCHANGED <<token, req, sessionId, app, input, output>>

\* any other status >= 400: reject with the body, or with the status
RespondError ==
  /\ pc = "fetch"
  /\ \E status \in Statuses, message \in Bodies :
       /\ status >= 400
       /\ ~(status \in {400, 404} /\ Accept = "text/event-stream")
       /\ responses' = Append(responses, Response(status, "body", message))
       /\ outcome' = Rejected(OrElse(message, HttpStatusText(status)))
  /\ pc' = "settled"
  /\ UNCHANGED <<options, requests, sent, drain, wire, pos, retryOf, fallbackMsg>>
  /\ UNCHANGED <<token, req, sessionId, app, input, output>>

\* a 2xx event-stream response with a body, and onChunk was supplied:
\* consumeStreamResponse starts
RespondStreamWith(texts) ==
  /\ pc = "fetch"
  /\ options.onChunk
  /\ \E w \in texts : wire' = w
  /\ responses' = Append(responses, Response(200, "stream", <<>>))
  /\ pos' = 0
  /\ drain' = NewDrain
  /\ pc' = "drain"
  /\ UNCHANGED <<options, requests, sent, retryOf, fallbackMsg, outcome>>
  /\ UNCHANGED <<token, req, sessionId, app, input, output>>

\* the stream carries any text of Wires
RespondStream == RespondStreamWith(Wires)

\* the stream carries any text of ParserWires
RespondParserStream == RespondStreamWith(ParserWires)

\* every other 2xx response: the body is read as a whole and normalized
RespondBody ==
  /\ pc = "fetch"
  /\ \E rawBody \in Bodies :
       /\ responses' = Append(responses, Response(200, "body", rawBody))
       /\ outcome' = Resolved(interpretParsedResponse(safeJsonParse(rawBody)))
  /\ pc' = "settled"
  /\ UNCHANGED <<options, requests, sent, drain, wire, pos, retryOf, fallbackMsg>>
  /\ UNCHANGED <<token, req, sessionId, app, input, output>>

\* the retry got a status that is not 2xx and is retried in turn
RetryFailsRetriesAgain ==
  /\ pc = "retry"
  /\ Len(requests) < 3
  /\ \E status \in Statuses, retryBody \in Bodies :
       /\ ~Ok(status)
       /\ responses' = Append(responses, Response(status, "body", retryBody))
  /\ requests' = Append(requests, Request("application/json", FALSE))
  /\ sent' = Append(sent, Sent(sessionId))
  /\ UNCHANGED <<pc, options, drain, wire, pos, retryOf, fallbackMsg, outcome>>
  /\ UNCHANGED <<token, req, sessionId, app, input, output>>

\* the retry got a status that is not 2xx
RetryFails ==
  /\ pc = "retry"
  /\ \E status \in Statuses, retryBody \in Bodies :
       /\ ~Ok(status)
       /\ responses' = Append(responses, Response(status, "body", retryBody))
       /\ outcome' = Rejected(OrElse(OrElse(retryBody, fallbackMsg),
                                     HttpStatusText(status)))
  /\ pc' = "settled"
  /\ UNCHANGED <<options, requests, sent, drain, wire, pos, retryOf, fallbackMsg>>
  /\ UNCHANGED <<token, req, sessionId, app, input, output>>

\* the retry got 2xx: its body is normalized
RetrySucceeds ==
  /\ pc = "retry"
  /\ \E retryBody \in Bodies :
       /\ responses' = Append(responses, Response(200, "body", retryBody))
       /\ outcome' = Resolved(interpretParsedResponse(safeJsonParse(retryBody)))
  /\ pc' = "settled"
  /\ UNCHANGED <<options, requests, sent, drain, wire, pos, retryOf, fallbackMsg>>
  /\ UNCHANGED <<token, req, sessionId, app, input, output>>

\* every error of the drain is rethrown
CatchStreamErrorRethrows(c) ==
  /\ pc' = "settled"
  /\ outcome' = Rejected(c.error)
  /\ UNCHANGED <<requests, sent, retryOf, fallbackMsg>>

\* the catch block around consumeStreamResponse, for the record c of the
\* drain that threw
CatchStreamError(c) ==
  IF IsStreamBreakdown(c.error)
    THEN /\ IssueRetry("stream", c.error)
         /\ UNCHANGED outcome
    ELSE /\ pc' = "settled"
         /\ outcome' = Rejected(c.error)
         /\ UNCHANGED <<requests, sent, retryOf, fallbackMsg>>

\* a read after which the text of an unfinished frame is not kept for the
\* next read
ReadChunkDropsPartial ==
  /\ pc = "drain"
  /\ \E n \in 1..(Len(wire) - pos) :
       LET c == [consume([drain EXCEPT
                            !.buffer = @ \o SubSeq(wire, pos + 1, pos + n)],
                         options.onThinking) EXCEPT !.buffer = <<>>]
       IN /\ drain' = c
          /\ pos' = pos + n
          /\ IF c.thrown
               THEN CatchStreamError(c)
               ELSE UNCHANGED <<pc, requests, sent, retryOf, fallbackMsg, outcome>>
  /\ UNCHANGED <<options, responses, wire>>
  /\ UNCHANGED <<token, req, sessionId, app, input, output>>

\* a read whose bytes are appended to the buffer twice
ReadChunkRedelivers ==
  /\ pc = "drain"
  /\ \E n \in 1..(Len(wire) - pos) :
       LET c == consume([drain EXCEPT
                           !.buffer = @ \o SubSeq(wire, pos + 1, pos + n)
                                        \o SubSeq(wire, pos + 1, pos + n)],
                        options.onThinking)
       IN /\ drain' = c
          /\ pos' = pos + n
          /\ IF c.thrown
               THEN CatchStreamError(c)
               ELSE UNCHANGED <<pc, requests, sent, retryOf, fallbackMsg, outcome>>
  /\ UNCHANGED <<options, responses, wire>>
  /\ UNCHANGED <<token, req, sessionId, app, input, output>>

\* reader.read() yields the next n atoms of the stream; consume() runs
ReadChunk ==
  /\ pc = "drain"
  /\ \E n \in 1..(Len(wire) - pos) :
       LET c == consume([drain EXCEPT
                           !.buffer = @ \o SubSeq(wire, pos + 1, pos + n)],
                        options.onThinking)
       IN /\ drain' = c
          /\ pos' = pos + n
          /\ IF c.thrown
               THEN CatchStreamError(c)
               ELSE UNCHANGED <<pc, requests, sent, retryOf, fallbackMsg, outcome>>
  /\ UNCHANGED <<options, responses, wire>>
  /\ UNCHANGED <<token, req, sessionId, app, input, output>>

\* reader.read() reports the end of the stream, after pos atoms
ReadDone ==
  /\ pc = "drain"
  /\ LET c == FlushTail(drain, options.onThinking)
         f == Finish(c, options.onThinking)
     IN IF c.thrown
          THEN /\ drain' = c
               /\ CatchStreamError(c)
          ELSE /\ drain' = f.c
               /\ outcome' = Resolved(f.response)
               /\ pc' = "settled"
               /\ UNCHANGED <<requests, sent, retryOf, fallbackMsg>>
  /\ wire' = SubSeq(wire, 1, pos)
  /\ UNCHANGED <<options, responses, pos>>
  /\ UNCHANGED <<token, req, sessionId, app, input, output>>

\* reader.read() rejects, after pos atoms
ReadThrows ==
  /\ pc = "drain"
  /\ \E msg \in ReadErrors :
       LET c == [drain EXCEPT !.thrown = TRUE, !.error = msg, !.cause = "read"]
       IN /\ drain' = c
          /\ CatchStreamError(c)
  /\ wire' = SubSeq(wire, 1, pos)
  /\ UNCHANGED <<options, responses, pos>>
  /\ UNCHANGED <<token, req, sessionId, app, input, output>>

Next ==
  \/ Invoke
  \/ TokenMissing
  \/ FirstFetch
  \/ FetchRejects
  \/ Respond404Streaming
  \/ Respond400Streaming
  \/ RespondError
  \/ RespondStream
  \/ RespondBody
  \/ RetryFails
  \/ RetrySucceeds
  \/ ReadChunk
  \/ ReadDone
  \/ ReadThrows

Spec == Init /\ [][Next]_vars

\* the call, with streams made of the frames that exercise the frame parser
NextParser ==
  \/ Invoke
  \/ TokenMissing
  \/ FirstFetch
  \/ FetchRejects
  \/ RespondParserStream
  \/ RetryFails
  \/ RetrySucceeds
  \/ ReadChunk
  \/ ReadDone
  \/ ReadThrows

SpecParser == Init /\ [][NextParser]_vars

(***************************************************************************)
(* Vocabulary of the properties                                            *)
(***************************************************************************)
Calls == drain.calls

Settled == pc = "settled"

\* the first attempt asked for an event stream
StreamingAttempt ==
  Len(requests) >= 1 /\ requests[1] = Request("text/event-stream", TRUE)

\* the response to the first attempt was opened as an event stream
StreamOpened == Len(responses) >= 1 /\ responses[1].kind = "stream"

\* the drain read the stream to its end and returned
DrainCompleted ==
  StreamOpened /\ Len(responses) = 1 /\ outcome.state = "resolved"

\* the second request is the non-streaming retry
RetriedOnce ==
  Len(requests) = 2 /\ requests[2] = Request("application/json", FALSE)

\* the call returned the normalized body of the second response
ReturnedRetryBody ==
  /\ Len(responses) = 2
  /\ outcome = Resolved(interpretParsedResponse(safeJsonParse(responses[2].body)))

\* the concatenation of the texts of the calls of the given kind among the
\* first n calls
RECURSIVE TextOf(_, _)
TextOf(kind, n) ==
  IF n = 0 THEN <<>>
  ELSE TextOf(kind, n - 1)
       \o (IF Calls[n].kind = kind THEN Calls[n].text ELSE <<>>)

DoneIndexes == {i \in 1..Len(Calls) : Calls[i].done}

(***************************************************************************)
(* C1: a call of invokeAgent issues at most two HTTP requests on every     *)
(* path, and when the retry gets a status that is not 2xx the call is      *)
(* rejected without a third request.                                       *)
(***************************************************************************)
C1_AtMostTwoRequests ==
  /\ Len(requests) <= 2
  /\ (Len(responses) = 2 /\ ~Ok(responses[2].status)) =>
       /\ Settled
       /\ outcome.state = "rejected"
       /\ Len(requests) = 2

C1_Witness ==
  /\ Len(requests) = 2
  /\ Len(responses) = 2
  /\ ~Ok(responses[2].status)
  /\ outcome.state = "rejected"

(***************************************************************************)
(* C2: when the streaming attempt gets 404 or 400 there is exactly one     *)
(* retry, with Accept: application/json and no stream flag; if the retry   *)
(* succeeds the call returns the normalized retry body; no callback is     *)
(* ever invoked in such a call.                                            *)
(***************************************************************************)
C2_NegotiationFallback ==
  (StreamingAttempt /\ Len(responses) >= 1 /\ responses[1].status \in {400, 404}) =>
    /\ RetriedOnce
    /\ Calls = <<>>
    /\ (Len(responses) = 2 /\ Ok(responses[2].status)) =>
         Settled /\ ReturnedRetryBody

C2_Witness ==
  /\ StreamingAttempt
  /\ options.onThinking
  /\ Len(responses) = 2
  /\ responses[1].status = 404
  /\ outcome.state = "resolved"
  /\ outcome.reply = <<"A">>
  /\ Calls = <<>>

BreakdownTexts ==
  { "Response ended prematurely", "response ended prematurely",
    "Stream error", "stream error" }

C4_ErrorEventRejects ==
  (drain.cause = "event" /\ Settled) =>
    /\ outcome.state = "rejected"
    /\ outcome.error = drain.error

(***************************************************************************)
(* C5 as stated: every call that was given onChunk and onThinking and      *)
(* settles after a request was dispatched has invoked onThinking with      *)
(* done = true exactly once, on every path; here for the calls that        *)
(* resolve.                                                                *)
(***************************************************************************)
C5_Original ==
  (/\ options.onChunk /\ options.onThinking
   /\ Settled /\ Len(requests) >= 1 /\ outcome.state = "resolved") =>
    Cardinality(DoneIndexes) = 1

(***************************************************************************)
(* C5 amended: a call that was given onChunk and onThinking invokes        *)
(* onThinking with done = true at most once; once it has settled after a   *)
(* request was dispatched, it has done so exactly once if the drain of the *)
(* stream ran to its end or met an error event, and not at all on every    *)
(* other path (404/400 fallback, a read or a dispatch that throws, a       *)
(* response that is not drained as a stream, a request that fails).        *)
(***************************************************************************)
C5_DoneNotification ==
  (options.onChunk /\ options.onThinking) =>
    /\ Cardinality(DoneIndexes) <= 1
    /\ (Settled /\ Len(requests) >= 1) =>
         (Cardinality(DoneIndexes) = 1
            <=> (DrainCompleted \/ drain.cause \in {"event", "eventNoMessage"}))

C5_Witness ==
  /\ options.onChunk /\ options.onThinking
  /\ DrainCompleted
  /\ TextOf("delta", Len(Calls)) = <<>>
  /\ Cardinality(DoneIndexes) = 1

(***************************************************************************)
(* C6 as stated: the text carried by a done notification is the in-order   *)
(* concatenation of the thinking deltas passed to onThinking before it,    *)
(* whatever the final payload contains.                                    *)
(***************************************************************************)
C6_Original ==
  \A i \in DoneIndexes :
    Calls[i].kind = "replace" => Calls[i].text = TextOf("delta", i - 1)

(***************************************************************************)
(* C6 amended: the done notification carries the first non-blank           *)
(* thinking/reasoning string found in the final payload when there is one, *)
(* and otherwise the in-order concatenation of the thinking deltas passed  *)
(* to onThinking before it; it carries no text when that text is blank and *)
(* when it is sent because of an error event.                              *)
(***************************************************************************)
C6_FinalThinkingText ==
  \A i \in DoneIndexes :
    LET extracted == extractThinking(drain.finalPayload)
        text == IF drain.thrown THEN <<>>
                ELSE IF extracted.k = "str" THEN extracted.v
                ELSE TextOf("delta", i - 1)
    IN Calls[i] = IF Trim(text) # <<>> THEN ThinkingReplaceDone(text)
                  ELSE ThinkingDone

C6_Witness ==
  /\ DrainCompleted
  /\ ~Truthy(extractThinking(drain.finalPayload))
  /\ Len(Calls) = 3
  /\ Calls[3] = ThinkingReplaceDone(<<"t", "t">>)
  /\ TextOf("delta", 2) = <<"t", "t">>

C8_ChunkFallback ==
  (DrainCompleted /\ ~Truthy(drain.finalPayload)) =>
    LET chunks == TextOf("chunk", Len(Calls))
    IN outcome.reply = IF chunks = <<>> THEN NoResponse ELSE chunks

C8_Witness ==
  /\ DrainCompleted
  /\ ~Truthy(drain.finalPayload)
  /\ Len(Calls) = 2
  /\ Calls[1] = ChunkCall(<<"a">>)
  /\ Calls[2] = ChunkCall(<<"b">>)
  /\ outcome.reply = <<"a", "b">>

(***************************************************************************)
(* C9: once a frame with payload [DONE] has been parsed, no frame after it *)
(* invokes a callback, stashes a final payload, raises an error or changes *)
(* the text the response is built from (frames whose dispatch fails with a *)
(* TypeError are left to C10).                                             *)
(***************************************************************************)
C9_StopsAfterDone == drain.cause # "dispatch" => drain.lateEffects = 0

(***************************************************************************)
(* C10: a stream without any error-typed event, whatever its frames carry, *)
(* is drained to its end and the call resolves: unless a read fails, the   *)
(* call never rejects.                                                     *)
(***************************************************************************)
ErrorPayloads ==
  { "{type:error,message:boom}", "{type:error,message:'upstream stream error'}",
    "{type:error}" }

C10_ParsingNeverFails ==
  (/\ StreamOpened
   /\ \A i \in 1..Len(wire) : wire[i] \notin ErrorPayloads
   /\ drain.cause # "read"
   /\ Settled) =>
    outcome.state = "resolved"

(***************************************************************************)
(* Vocabulary of the properties of the frame parser                        *)
(***************************************************************************)
\* the frames handed to parseSseEvent so far, in order
Log == drain.log

\* the frame has a data payload that is neither JSON nor the token [DONE]
MalformedPayload(segment) ==
  /\ DataLines(segment) # <<>>
  /\ ~JSONparse(DataString(segment)).ok
  /\ DataString(segment) # <<"[DONE]">>

\* the dispatch of the frame invoked onChunk once with the data payload,
\* appended the payload to the accumulated text and did not throw
DispatchedAsRawChunk(e) ==
  /\ ~e.threw
  /\ e.callsAfter = e.callsBefore + 1
  /\ Calls[e.callsAfter] = ChunkCall(DataString(e.segment))
  /\ e.aggregatedAfter = e.aggregatedBefore \o DataString(e.segment)

(***************************************************************************)
(* C11 as stated: every frame whose data payload is neither valid JSON nor *)
(* the token [DONE] is dispatched as a chunk carrying the raw payload      *)
(* (onChunk invoked with it, the payload appended to the accumulated       *)
(* text), without raising.                                                 *)
(***************************************************************************)
C11_Original ==
  \A i \in 1..Len(Log) :
    MalformedPayload(Log[i].segment) => DispatchedAsRawChunk(Log[i])

(***************************************************************************)
(* C11: every frame whose data payload is not empty and is neither valid   *)
(* JSON nor the token [DONE] is dispatched as a chunk carrying the raw     *)
(* payload (onChunk invoked with it, the payload appended to the           *)
(* accumulated text), without raising; a frame whose data payload is empty *)
(* is skipped.                                                             *)
(***************************************************************************)
C11_MalformedIsChunk ==
  \A i \in 1..Len(Log) :
    /\ (MalformedPayload(Log[i].segment) /\ DataString(Log[i].segment) # <<>>)
         => DispatchedAsRawChunk(Log[i])
    /\ (DataLines(Log[i].segment) # <<>> /\ DataString(Log[i].segment) = <<>>)
         => (/\ ~Log[i].threw
             /\ Log[i].callsAfter = Log[i].callsBefore
             /\ Log[i].aggregatedAfter = Log[i].aggregatedBefore)

\* a payload of two data lines that is not JSON has been dispatched as one
\* chunk, after an earlier chunk
C11_Witness ==
  \E i \in 1..Len(Log) :
    /\ DataString(Log[i].segment) = <<"plain", "\n", "more">>
    /\ Log[i].aggregatedBefore # <<>>
    /\ DispatchedAsRawChunk(Log[i])

\* the text after the last blank line of a stream
RECURSIVE UnterminatedTail(_)
UnterminatedTail(text) ==
  IF IndexOfBlankLine(text) = 0 THEN text
  ELSE UnterminatedTail(SubSeq(text, IndexOfBlankLine(text) + 2, Len(text)))

\* the positions in the log of the frames parsed after the end of the stream
FlushedIndexes == {i \in 1..Len(Log) : Log[i].atEnd}

\* the calls the dispatch of a frame makes when it is a chunk or a thinking
\* frame that carries text
FrameCalls(segment, onThinking) ==
  LET event == parseSseEvent(segment)
      content == Get(event, "content")
  IN IF event.k = "obj" /\ ~HasKey(event, "done") /\ content.k = "str"
         /\ Get(event, "type") = JStr(<<"chunk">>)
       THEN <<ChunkCall(content.v)>>
     ELSE IF event.k = "obj" /\ ~HasKey(event, "done") /\ content.k = "str"
         /\ Get(event, "type") = JStr(<<"thinking">>) /\ content.v # <<>>
         /\ onThinking
       THEN <<ThinkingDelta(content.v)>>
     ELSE <<>>

(***************************************************************************)
(* C12: when the stream has ended and the text after its last blank line   *)
(* is not blank, that text is handed to the frame parser exactly once, as  *)
(* the only frame parsed at the end of the stream, and it is dispatched:   *)
(* it makes the calls of its frame, once. When the text after the last     *)
(* blank line is blank, nothing is parsed at the end of the stream.        *)
(***************************************************************************)
C12_TailFlushedOnce ==
  drain.ended =>
    LET tail == Trim(UnterminatedTail(wire))
    IN IF tail = <<>> THEN FlushedIndexes = {}
       ELSE /\ Cardinality(FlushedIndexes) = 1
            /\ \A i \in FlushedIndexes :
                 /\ i = Len(Log)
                 /\ Log[i].segment = tail
                 /\ \A j \in 1..(i - 1) : ~Log[j].atEnd
                 /\ SubSeq(Calls, Log[i].callsBefore + 1, Log[i].callsAfter)
                      = FrameCalls(tail, options.onThinking)

\* the stream ended inside its second frame, a chunk whose blank line never
\* arrived; the chunk was dispatched and is part of the reply
C12_Witness ==
  /\ drain.ended
  /\ wire = Frame("{type:chunk,content:a}")
              \o <<"data:", "{type:chunk,content:b}", "\n">>
  /\ Len(Log) = 2 /\ Log[2].atEnd
  /\ Calls = <<ChunkCall(<<"a">>), ChunkCall(<<"b">>)>>
  /\ outcome.state = "resolved"
  /\ outcome.reply = <<"a", "b">>

\* the frames of a stream as they appear in it: the non-blank texts between
\* its blank lines, the text after the last blank line included
RECURSIVE StreamFrames(_)
StreamFrames(text) ==
  LET index == IndexOfBlankLine(text)
      first == Trim(SubSeq(text, 1, index - 1))
  IN IF index = 0
       THEN IF Trim(text) = <<>> THEN <<>> ELSE <<Trim(text)>>
     ELSE (IF first = <<>> THEN <<>> ELSE <<first>>)
            \o StreamFrames(SubSeq(text, index + 2, Len(text)))

\* the frames handed to parseSseEvent so far
LogFrames == [i \in 1..Len(Log) |-> Log[i].segment]

RECURSIVE Flatten(_)
Flatten(seqs) ==
  IF seqs = <<>> THEN <<>> ELSE Head(seqs) \o Flatten(Tail(seqs))

\* the call of a chunk frame or of a thinking frame, whatever text the
\* frame carries
NominalFrameCalls(segment, onThinking) ==
  LET event == parseSseEvent(segment)
      content == Get(event, "content")
  IN IF event.k = "obj" /\ ~HasKey(event, "done") /\ content.k = "str"
         /\ Get(event, "type") = JStr(<<"chunk">>)
       THEN <<ChunkCall(content.v)>>
     ELSE IF event.k = "obj" /\ ~HasKey(event, "done") /\ content.k = "str"
         /\ Get(event, "type") = JStr(<<"thinking">>) /\ onThinking
       THEN <<ThinkingDelta(content.v)>>
     ELSE <<>>

\* the onChunk calls and the onThinking calls that carry a delta, in the
\* order they were made
DeltaCalls == SelectSeq(Calls, LAMBDA call : ~call.done)

IsPrefix(s, t) == Len(s) <= Len(t) /\ s = SubSeq(t, 1, Len(s))

(***************************************************************************)
(* C13 as stated: when a drain has completed, the sequence of onChunk and  *)
(* onThinking delta invocations is the sequence of the chunk frames and    *)
(* the thinking frames of the stream, one invocation per frame, in the     *)
(* order of the stream.                                                    *)
(***************************************************************************)
C13_Original ==
  DrainCompleted =>
    DeltaCalls =
      Flatten([i \in 1..Len(StreamFrames(wire)) |->
                 NominalFrameCalls(StreamFrames(wire)[i], options.onThinking)])

(***************************************************************************)
(* C13: the frames are parsed strictly forward (the frames parsed so far   *)
(* are a prefix of the frames of the stream, and all of them once the      *)
(* drain has completed), and the sequence of onChunk and onThinking delta  *)
(* invocations is the sequence of the chunk frames and of the thinking     *)
(* frames with non-empty text among the parsed frames, one invocation per  *)
(* frame, in the order of the stream; a thinking frame whose text is empty *)
(* invokes nothing.                                                        *)
(***************************************************************************)
C13_DispatchedOnceInOrder ==
  /\ IsPrefix(LogFrames, StreamFrames(wire))
  /\ DrainCompleted => LogFrames = StreamFrames(wire)
  /\ DeltaCalls =
       Flatten([i \in 1..Len(Log) |->
                  FrameCalls(Log[i].segment, options.onThinking)])

\* a completed drain of a thinking frame followed by a chunk frame invoked
\* onThinking with the delta, then onChunk
C13_Witness ==
  /\ DrainCompleted
  /\ wire = Frame("{type:thinking,content:t}") \o Frame("{type:chunk,content:a}")
  /\ DeltaCalls = <<ThinkingDelta(<<"t">>), ChunkCall(<<"a">>)>>

(***************************************************************************)
(* Vocabulary of the properties of the call                                *)
(***************************************************************************)
\* the session provider yielded no access token, or an empty one
NoToken == token \in {"absent", "empty"}

CredentialError == <<"Unable to acquire access token for AgentCore invocation">>

(***************************************************************************)
(* C14: when the session provider yields no access token, the call is      *)
(* rejected with the credential error, no HTTP request has been issued and *)
(* no callback has been invoked.                                           *)
(***************************************************************************)
C14_NoTokenNoRequest ==
  NoToken =>
    /\ Settled
    /\ outcome.state = "rejected"
    /\ outcome.error = CredentialError
    /\ requests = <<>>
    /\ responses = <<>>
    /\ Calls = <<>>

\* a call that supplied both callbacks found no token
C14_Witness ==
  /\ NoToken
  /\ options.onChunk /\ options.onThinking
  /\ outcome.state = "rejected"

\* the first response is a failure that is not answered by a retry: any
\* status >= 400 other than a 400 or 404 answer to a streaming attempt
FatalStatus ==
  /\ Len(responses) >= 1
  /\ responses[1].status >= 400
  /\ ~(StreamingAttempt /\ responses[1].status \in {400, 404})

(***************************************************************************)
(* C15: a second request exists only when the first attempt asked for a    *)
(* stream and either was answered 400 or 404 or failed while its stream    *)
(* was drained; a call whose first response has any other failing status   *)
(* (400 and 404 included when the attempt did not ask for a stream) makes  *)
(* exactly one request and rejects with the response body, or with         *)
(* "HTTP <status>" when the body is empty.                                 *)
(***************************************************************************)
C15_RetryOnlyWhenStreaming ==
  /\ Len(requests) >= 2 =>
       /\ StreamingAttempt
       /\ \/ responses[1].status \in {400, 404}
          \/ StreamOpened /\ drain.thrown
  /\ FatalStatus =>
       /\ Settled
       /\ Len(requests) = 1
       /\ outcome.state = "rejected"
       /\ outcome.error =
            IF responses[1].body # <<>> THEN responses[1].body
            ELSE <<"HTTP ", ToString(responses[1].status)>>

\* a 404 with a body answered an attempt that did not ask for a stream: one
\* request, rejected with the body
C15_Witness ==
  /\ Len(requests) = 1
  /\ requests[1] = Request("application/json", FALSE)
  /\ Len(responses) = 1
  /\ responses[1].status = 404
  /\ responses[1].body = <<"plain">>
  /\ outcome.state = "rejected"
  /\ outcome.error = <<"plain">>

(***************************************************************************)
(* createSessionId applied on its own                                      *)
(***************************************************************************)
\* the longest random component and the longest timestamp that are drawn:
\* crypto.randomUUID() without its dashes has 32 characters, Date.now() has
\* 13 digits today
MaxRandomLen == 32
MaxNowLen == 13

\* the random component is any text of up to MaxRandomLen characters (the
\* Math.random fallback can produce the empty text), the timestamp any
\* text of 1 to MaxNowLen digits
SessionInputs ==
  { [k |-> "createSessionId",
     v |-> [randomComponent |-> Repeat("x", n), now |-> Repeat("1", m)]] :
      n \in 0..MaxRandomLen, m \in 1..MaxNowLen }

InitSession ==
  /\ pc = "idle"
  /\ options = [onChunk |-> FALSE, onThinking |-> FALSE]
  /\ requests = <<>>
  /\ responses = <<>>
  /\ drain = NewDrain
  /\ wire = <<>>
  /\ pos = 0
  /\ retryOf = "none"
  /\ fallbackMsg = <<>>
  /\ outcome = Pending
  /\ token = "unset"
  /\ req = [sessionId |-> JUndef]
  /\ sessionId = <<>>
  /\ sent = <<>>
  /\ app = Unmounted
  /\ input \in SessionInputs
  /\ output = JUndef

\* createSessionId() returns
CreateSessionId ==
  /\ input.k = "createSessionId"
  /\ output = JUndef
  /\ output' = JStr(createSessionId(input.v.randomComponent, input.v.now))
  /\ UNCHANGED <<pc, options, requests, responses, drain, wire, pos, retryOf,
                 fallbackMsg, outcome, token, req, sessionId, sent, app, input>>

NextSession == CreateSessionId

SpecSession == InitSession /\ [][NextSession]_vars

(***************************************************************************)
(* C16: whatever the length of the random component and of the timestamp,  *)
(* the text createSessionId returns has at least 33 characters.            *)
(***************************************************************************)
C16_SessionIdLength ==
  (input.k = "createSessionId" /\ output # JUndef) =>
    /\ output.k = "str"
    /\ Len(output.v) >= 33

\* the empty random component and a one-digit timestamp: the six characters
\* web__1 are padded to 33
C16_Witness ==
  /\ input.k = "createSessionId"
  /\ input.v.randomComponent = <<>>
  /\ Len(input.v.now) = 1
  /\ output.k = "str"
  /\ Len(output.v) = 33
  /\ SubSeq(output.v, 1, 6) = <<"w", "e", "b", "_", "_", "1">>

(***************************************************************************)
(* The App component: turns and conversation resets                        *)
(* (src/src/App.tsx)                                                       *)
(***************************************************************************)
\* the turns and the resets of a conversation that are explored
MaxTurns == 2
MaxResets == 2

\* the session ids createSessionId() can return in the App
AppSessionIds ==
  {createSessionId(r, now) : r \in {Repeat("a", 32), Repeat("b", 32)},
                             now \in {Repeat("1", 13)}}

\* the texts of the event stream in the specification of the App
AppWires ==
  { Frame("{type:chunk,content:a}"),
    Frame("{type:error,message:'upstream stream error'}"),
    Frame("{type:final,thinking:T,response:R}") }

\* the App is mounted: useState(() => createSessionId()); import.meta.env.DEV
\* is fixed when the app is built
InitApp ==
  /\ pc = "idle"
  /\ options = [onChunk |-> FALSE, onThinking |-> FALSE]
  /\ requests = <<>>
  /\ responses = <<>>
  /\ drain = NewDrain
  /\ wire = <<>>
  /\ pos = 0
  /\ retryOf = "none"
  /\ fallbackMsg = <<>>
  /\ outcome = Pending
  /\ token = "unset"
  /\ req = [sessionId |-> JUndef]
  /\ sessionId = <<>>
  /\ sent = <<>>
  /\ \E id \in AppSessionIds, dev \in BOOLEAN :
       app = [mounted |-> TRUE, sessionId |-> id, loading |-> FALSE,
              resetting |-> FALSE, dev |-> dev, resets |-> 0, turns |-> 0]
  /\ input = JUndef
  /\ output = JUndef

\* sendMessage with a non-blank input: invokeAgent is called with the
\* sessionId of the component and both callbacks
SendMessage ==
  /\ app.mounted
  /\ ~app.loading
  /\ pc = "idle"
  /\ app.turns < MaxTurns
  /\ app' = [app EXCEPT !.loading = TRUE, !.turns = @ + 1]
  /\ req' = [sessionId |-> JStr(app.sessionId)]
  /\ options' = [onChunk |-> TRUE, onThinking |-> TRUE]
  /\ pc' = "auth"
  /\ outcome' = Pending
  /\ UNCHANGED <<requests, responses, drain, wire, pos, retryOf, fallbackMsg,
                 token, sessionId, sent, input, output>>

\* invokeAgent has settled: the reply or the error is shown and the finally
\* clause clears loading; the locals of the call are gone
TurnEnds ==
  /\ app.mounted
  /\ pc = "settled"
  /\ app' = [app EXCEPT !.loading = FALSE]
  /\ pc' = "idle"
  /\ requests' = <<>>
  /\ responses' = <<>>
  /\ drain' = NewDrain
  /\ wire' = <<>>
  /\ pos' = 0
  /\ retryOf' = "none"
  /\ fallbackMsg' = <<>>
  /\ token' = "unset"
  /\ sessionId' = <<>>
  /\ UNCHANGED <<options, outcome, req, sent, input, output>>

\* resetConversation in a build without import.meta.env.DEV: nothing is
\* awaited, the finally clause runs at once
ResetConversation ==
  /\ app.mounted
  /\ ~(app.loading \/ app.resetting)
  /\ ~app.dev
  /\ app.resets < MaxResets
  /\ \E id \in AppSessionIds :
       app' = [app EXCEPT !.sessionId = id, !.resets = @ + 1]
  /\ UNCHANGED <<pc, options, requests, responses, drain, wire, pos, retryOf,
                 fallbackMsg, outcome, token, req, sessionId, sent, input,
                 output>>

\* resetConversation in a build with import.meta.env.DEV: resetting is set
\* and fetch('/api/reset') is awaited
ResetBegins ==
  /\ app.mounted
  /\ ~(app.loading \/ app.resetting)
  /\ app.dev
  /\ app.resets < MaxResets
  /\ app' = [app EXCEPT !.resetting = TRUE]
  /\ UNCHANGED <<pc, options, requests, responses, drain, wire, pos, retryOf,
                 fallbackMsg, outcome, token, req, sessionId, sent, input,
                 output>>

\* fetch('/api/reset') has settled: the finally clause installs a new
\* session id and clears resetting
ResetCompletes ==
  /\ app.mounted
  /\ app.resetting
  /\ \E id \in AppSessionIds :
       app' = [app EXCEPT !.sessionId = id, !.resetting = FALSE,
                          !.resets = @ + 1]
  /\ UNCHANGED <<pc, options, requests, responses, drain, wire, pos, retryOf,
                 fallbackMsg, outcome, token, req, sessionId, sent, input,
                 output>>

\* the stream carries any text of AppWires
RespondAppStream == RespondStreamWith(AppWires)

NextApp ==
  \/ SendMessage
  \/ TokenMissing
  \/ FirstFetch
  \/ FetchRejects
  \/ Respond404Streaming
  \/ Respond400Streaming
  \/ RespondError
  \/ RespondAppStream
  \/ RespondBody
  \/ RetryFails
  \/ RetrySucceeds
  \/ ReadChunk
  \/ ReadDone
  \/ ReadThrows
  \/ TurnEnds
  \/ ResetConversation
  \/ ResetBegins
  \/ ResetCompletes

SpecApp == InitApp /\ [][NextApp]_vars

(***************************************************************************)
(* C17: any two requests issued while the same number of conversation      *)
(* resets had completed, that is between two consecutive resets, carry the *)
(* same runtime session header, in whatever turn and attempt they were     *)
(* issued.                                                                 *)
(***************************************************************************)
C17_SameSessionBetweenResets ==
  \A i \in 1..Len(sent), j \in 1..Len(sent) :
    sent[i].epoch = sent[j].epoch => sent[i].sessionId = sent[j].sessionId

(***************************************************************************)
(* interpretParsedResponse applied on its own to decoded JSON values       *)
(***************************************************************************)
\* a field that is not there
Absent == JUndef

\* the values a field of a decoded payload takes
FieldValues ==
  { JNull, JStr(<<>>), JStr(<<" ">>), JStr(<<"A">>), JNum(5), JBool(FALSE),
    JArr(<<>>), JArr(<<JStr(<<"s">>)>>), JObj(<<>>) }

OptionalFields ==
  {"sources", "documents", "search_trace", "methodology", "limitations"}

\* an object with the fields answer, raw and one more field, each of them
\* absent or of any type
Payload(answer, raw, name, value) ==
  LET keys == (IF answer = Absent THEN {} ELSE {"answer"})
                \cup (IF raw = Absent THEN {} ELSE {"raw"})
                \cup (IF value = Absent THEN {} ELSE {name})
  IN JObj([key \in keys |->
             CASE key = "answer" -> answer
               [] key = "raw" -> raw
               [] OTHER -> value])

Payloads ==
  { Payload(answer, raw, name, value) :
      answer \in FieldValues \cup {Absent},
      raw \in {Absent, JStr(<<>>), JStr(<<"raw">>), JNum(5)},
      name \in OptionalFields,
      value \in FieldValues \cup {Absent} }

\* a response that is a string: plain text or the text of a JSON value
ResponseTexts ==
  { JStr(<<"R">>), JStr(<<"{answer:A,sources:5}">>), JStr(<<"{answer:''}">>),
    JStr(<<"{}">>), JStr(<<"null">>), JStr(<<"5">>) }

\* payload objects placed at output.message next to a response
MessageSamples ==
  { Payload(JStr(<<"A">>), Absent, "sources", JArr(<<JStr(<<"s">>)>>)),
    Payload(JStr(<<>>), Absent, "sources", Absent),
    Payload(Absent, JStr(<<"raw">>), "sources", Absent),
    Payload(Absent, Absent, "methodology", JStr(<<"A">>)) }

\* the decoded values: every kind of JSON value, and the envelopes with
\* output, output.message and response of every type
NormInputs ==
  FieldValues \cup {JNum(0), JBool(TRUE), JStr(<<"plain">>)}
    \cup {JObj([output |-> o]) : o \in FieldValues}
    \cup {JObj([output |-> JObj([message |-> m])]) :
            m \in FieldValues \cup Payloads}
    \cup {JObj([response |-> r]) :
            r \in FieldValues \cup ResponseTexts \cup Payloads}
    \cup {JObj([output |-> o, response |-> r]) :
            o \in {JNull, JStr(<<"A">>), JObj(<<>>), JArr(<<>>)},
            r \in FieldValues \cup ResponseTexts}
    \cup {JObj([output |-> JObj([message |-> m]), response |-> r]) :
            m \in FieldValues \cup MessageSamples,
            r \in FieldValues \cup ResponseTexts \cup MessageSamples}

InitNorm ==
  /\ pc = "idle"
  /\ options = [onChunk |-> FALSE, onThinking |-> FALSE]
  /\ requests = <<>>
  /\ responses = <<>>
  /\ drain = NewDrain
  /\ wire = <<>>
  /\ pos = 0
  /\ retryOf = "none"
  /\ fallbackMsg = <<>>
  /\ outcome = Pending
  /\ token = "unset"
  /\ req = [sessionId |-> JUndef]
  /\ sessionId = <<>>
  /\ sent = <<>>
  /\ app = Unmounted
  /\ \E parsed \in NormInputs :
       input = [k |-> "interpretParsedResponse", v |-> parsed]
  /\ output = JUndef

\* interpretParsedResponse(parsed) returns or raises
InterpretParsedResponse ==
  /\ input.k = "interpretParsedResponse"
  /\ output = JUndef
  /\ output' = [k |-> "ChatResponse", v |-> interpretParsedResponse(input.v),
                threw |-> interpretParsedResponseThrows(input.v)]
  /\ UNCHANGED <<pc, options, requests, responses, drain, wire, pos, retryOf,
                 fallbackMsg, outcome, token, req, sessionId, sent, app, input>>

NextNorm == InterpretParsedResponse

SpecNorm == InitNorm /\ [][NextNorm]_vars

\* interpretParsedResponse has returned a ChatResponse
Interpreted == output.k = "ChatResponse" /\ ~output.threw

(***************************************************************************)
(* C18: the reply of every ChatResponse, whether interpretParsedResponse   *)
(* built it from a decoded payload or invokeAgent returned it, is a        *)
(* non-empty text.                                                         *)
(***************************************************************************)
C18_ReplyNeverEmpty ==
  /\ Interpreted => output.v.reply # <<>>
  /\ outcome.state = "resolved" => outcome.reply # <<>>

\* the object a ChatResponse takes its structuredData from: output.message,
\* the value a string response decodes to, or response
StructuredPayload(parsed) ==
  LET envelope == Get(parsed, "output")
      response == Get(parsed, "response")
  IN IF HasKey(envelope, "message") THEN Get(envelope, "message")
     ELSE IF response.k = "str" THEN JSONparse(response.v).val
     ELSE response

\* the sources of a payload when they are an array, the empty array
\* otherwise
SourcesOrEmpty(payload) ==
  IF Get(payload, "sources").k = "arr" THEN Get(payload, "sources")
  ELSE JArr(<<>>)

(***************************************************************************)
(* C19: whenever a ChatResponse carries structuredData, structuredData has *)
(* a sources field that is a sequence: the sources of the payload when     *)
(* they are an array, the empty sequence when they are missing or of       *)
(* another type; the envelope {output:{message:{answer:'A',sources:[]}}}   *)
(* gives the reply 'A' and structuredData.sources = [].                    *)
(***************************************************************************)
C19_SourcesAlwaysSequence ==
  /\ (Interpreted /\ output.v.structuredData # JUndef) =>
       /\ HasKey(output.v.structuredData, "sources")
       /\ Get(output.v.structuredData, "sources").k = "arr"
       /\ Get(output.v.structuredData, "sources")
            = SourcesOrEmpty(StructuredPayload(input.v))
  /\ (Interpreted /\ input.v = JObj([output |-> JObj([message |->
          JObj([answer |-> JStr(<<"A">>), sources |-> JArr(<<>>)])])])) =>
       /\ output.v.reply = <<"A">>
       /\ output.v.structuredData # JUndef
       /\ Get(output.v.structuredData, "sources") = JArr(<<>>)
  /\ outcome.structuredData # JUndef =>
       Get(outcome.structuredData, "sources").k = "arr"

\* a payload with an answer whose sources is a number: structuredData is
\* there and its sources is the empty sequence
C19_Witness ==
  /\ Interpreted
  /\ input.v = JObj([response |->
                       JObj([answer |-> JStr(<<"A">>), sources |-> JNum(5)])])
  /\ output.v.structuredData # JUndef
  /\ Get(output.v.structuredData, "sources") = JArr(<<>>)

\* a StructuredResponse in which every field has its type or is dropped
WellTyped(structuredData) ==
  /\ structuredData.k = "obj"
  /\ Get(structuredData, "answer").k \in {"str", "undef"}
  /\ Get(structuredData, "sources").k = "arr"
  /\ Get(structuredData, "documents").k \in {"arr", "undef"}
  /\ Get(structuredData, "search_trace").k \in {"arr", "undef"}
  /\ Get(structuredData, "methodology").k \in {"str", "undef"}
  /\ Get(structuredData, "limitations").k \in {"str", "undef"}

(***************************************************************************)
(* C20: for every decoded JSON value, whatever the type of output,         *)
(* output.message, response, answer, raw and the optional fields,          *)
(* interpretParsedResponse does not raise: it returns a reply and either   *)
(* no structuredData or a structuredData in which every wrong-typed        *)
(* optional field has been dropped.                                        *)
(***************************************************************************)
C20_NormalizerNeverRaises ==
  output.k = "ChatResponse" =>
    /\ ~output.threw
    /\ output.v.raw = input.v
    /\ \/ output.v.structuredData = JUndef
       \/ WellTyped(output.v.structuredData)

\* a message whose answer is a string and whose documents is a number: the
\* reply is the answer and documents has been dropped
C20_Witness ==
  /\ Interpreted
  /\ input.v = JObj([output |-> JObj([message |->
          JObj([answer |-> JStr(<<"A">>), documents |-> JNum(5)])])])
  /\ output.v.reply = <<"A">>
  /\ Get(output.v.structuredData, "documents") = JUndef
  /\ Get(output.v.structuredData, "sources") = JArr(<<>>)

\* the decoded payload has an output.message field and a response field
HasMessageAndResponse(parsed) ==
  /\ HasKey(Get(parsed, "output"), "message")
  /\ HasKey(parsed, "response")

\* what rule 1 derives from output.message alone
FromMessageAlone(message) ==
  IF message.k = "str"
    THEN [reply |-> message.v, structuredData |-> JUndef]
  ELSE IF message.k \in {"obj", "arr"} THEN MessageObjectRule(message)
  ELSE [reply |-> NoResponse, structuredData |-> JUndef]

(***************************************************************************)
(* C21: for a payload that has both an output.message field and a response *)
(* field, the reply and the structuredData are the ones derived from       *)
(* output.message alone: they are the same whatever the response field     *)
(* holds.                                                                  *)
(***************************************************************************)
C21_MessageBeforeResponse ==
  (Interpreted /\ HasMessageAndResponse(input.v)) =>
    LET expected == FromMessageAlone(Get(Get(input.v, "output"), "message"))
    IN /\ output.v.reply = expected.reply
       /\ output.v.structuredData = expected.structuredData

\* a payload whose output.message is a string and whose response is an
\* object with an answer of its own: the reply is the message
C21_Witness ==
  /\ Interpreted
  /\ input.v = JObj([output |-> JObj([message |-> JStr(<<" ">>)]),
                     response |-> Payload(JStr(<<"A">>), Absent, "sources",
                                          JArr(<<JStr(<<"s">>)>>))])
  /\ output.v.reply = <<" ">>
  /\ output.v.structuredData = JUndef

\* the decoded payload of a state is an envelope whose output.message is an
\* object without a non-empty answer string
MessageWithoutAnswer ==
  /\ HasKey(Get(input.v, "output"), "message")
  /\ Get(Get(input.v, "output"), "message").k = "obj"
  /\ ~NonBlankString(Get(Get(Get(input.v, "output"), "message"), "answer"))

(***************************************************************************)
(* C22: for an output.message that is an object without a non-empty answer *)
(* string, the reply is the raw field when it is a string and the JSON     *)
(* serialization of the object otherwise, also when the object has an      *)
(* answer key whose value is empty, blank or not a string.                 *)
(***************************************************************************)
C22_RawElseSerialized ==
  (Interpreted /\ MessageWithoutAnswer) =>
    LET message == Get(Get(input.v, "output"), "message")
    IN output.v.reply =
         IF Get(message, "raw").k = "str" THEN Get(message, "raw").v
         ELSE Stringify(message)

\* the decoded payload of a state has no output.message and its response is
\* an object
ResponseObjectOnly ==
  /\ ~HasKey(Get(input.v, "output"), "message")
  /\ Get(input.v, "response").k = "obj"

(***************************************************************************)
(* C23: when output.message is absent and response is an object, the reply *)
(* and the structuredData are the ones rule 1 gives for the same object    *)
(* placed at output.message.                                               *)
(***************************************************************************)
C23_ResponseLikeMessage ==
  (Interpreted /\ ResponseObjectOnly) =>
    /\ output.v.reply = MessageObjectRule(Get(input.v, "response")).reply
    /\ output.v.structuredData
         = MessageObjectRule(Get(input.v, "response")).structuredData

(***************************************************************************)
(* The splitter of an assistant text into its visible and thinking parts   *)
(* (src/src/App.tsx); a text is a sequence of characters here              *)
(***************************************************************************)
openTag == <<"<", "t", "h", "i", "n", "k", "i", "n", "g", ">">>
closeTag == <<"<", "/", "t", "h", "i", "n", "k", "i", "n", "g", ">">>

\* the lower case of a character: one character, except for the capital I
\* with a dot above (U+0130), whose lower case is an i followed by the
\* combining dot above
LowerOf(ch) ==
  CASE ch = "T" -> <<"t">>
    [] ch = "I-dot" -> <<"i", "dot-above">>
    [] OTHER -> <<ch>>

\* String.prototype.toLowerCase
toLowerCase(text) == Flatten([i \in 1..Len(text) |-> LowerOf(text[i])])

\* the canonical form under which the i flag of a regular expression
\* compares two characters
Canonical(ch) == IF ch = "t" THEN "T" ELSE ch

\* String.prototype.indexOf(pattern, from): 0-based, -1 when there is none
IndexOf(s, pattern, from) ==
  LET hits == {i \in from..(Len(s) - Len(pattern)) :
                 SubSeq(s, i + 1, i + Len(pattern)) = pattern}
  IN IF hits = {} THEN -1
     ELSE CHOOSE i \in hits : \A j \in hits : i <= j

\* String.prototype.slice(from, to) for from, to >= 0
Slice(s, from, to) ==
  SubSeq(s, (IF from < Len(s) THEN from ELSE Len(s)) + 1,
            IF to < Len(s) THEN to ELSE Len(s))

\* the regular expression /tag/i matches at the 1-based position i of s
MatchesAt(s, i, tag) ==
  /\ i + Len(tag) - 1 <= Len(s)
  /\ \A j \in 1..Len(tag) : Canonical(s[i + j - 1]) = Canonical(tag[j])

\* s.replace(/<\/?thinking>/gi, ''), from the 1-based position i on
RECURSIVE RemoveTagsFrom(_, _)
RemoveTagsFrom(s, i) ==
  IF i > Len(s) THEN <<>>
  ELSE IF MatchesAt(s, i, openTag) THEN RemoveTagsFrom(s, i + Len(openTag))
  ELSE IF MatchesAt(s, i, closeTag) THEN RemoveTagsFrom(s, i + Len(closeTag))
  ELSE <<s[i]>> \o RemoveTagsFrom(s, i + 1)

RemoveTags(s) == RemoveTagsFrom(s, 1)

\* the length of the run of newlines that starts at the 1-based position i
RECURSIVE NewlineRun(_, _)
NewlineRun(s, i) ==
  IF i <= Len(s) /\ s[i] = "\n" THEN 1 + NewlineRun(s, i + 1) ELSE 0

\* s.replace(/\n{3,}/g, '\n\n'), from the 1-based position i on
RECURSIVE CollapseNewlinesFrom(_, _)
CollapseNewlinesFrom(s, i) ==
  IF i > Len(s) THEN <<>>
  ELSE IF NewlineRun(s, i) >= 3
    THEN <<"\n", "\n">> \o CollapseNewlinesFrom(s, i + NewlineRun(s, i))
  ELSE <<s[i]>> \o CollapseNewlinesFrom(s, i + 1)

\* the visible text without the collapse of long runs of newlines
CollapseNewlinesKept(s) == s

CollapseNewlines(s) == CollapseNewlinesFrom(s, 1)

\* the while loop of extractAssistantSurface
RECURSIVE SurfaceScan(_, _, _, _, _)
SurfaceScan(text, lower, cursor, visibleParts, thinkingParts) ==
  LET nextOpen == IndexOf(lower, openTag, cursor)
      start == nextOpen + Len(openTag)
      nextClose == IndexOf(lower, closeTag, start)
  IN IF ~(cursor < Len(text))
       THEN [visibleParts |-> visibleParts, thinkingParts |-> thinkingParts,
             stillOpen |-> FALSE]
     ELSE IF nextOpen = -1
       THEN [visibleParts |-> Append(visibleParts, Slice(text, cursor, Len(text))),
             thinkingParts |-> thinkingParts, stillOpen |-> FALSE]
     ELSE IF nextClose = -1
       THEN [visibleParts |-> Append(visibleParts, Slice(text, cursor, nextOpen)),
             thinkingParts |-> Append(thinkingParts, Slice(text, start, Len(text))),
             stillOpen |-> TRUE]
     ELSE SurfaceScan(text, lower, nextClose + Len(closeTag),
                      Append(visibleParts, Slice(text, cursor, nextOpen)),
                      Append(thinkingParts, Slice(text, start, nextClose)))

extractAssistantSurface(text) ==
  LET scanned == SurfaceScan(text, toLowerCase(text), 0, <<>>, <<>>)
      cleaned == [i \in 1..Len(scanned.thinkingParts) |->
                    Trim(RemoveTags(scanned.thinkingParts[i]))]
  IN IF text = <<>>
       THEN [visible |-> <<>>, thinking |-> <<>>, open |-> FALSE]
     ELSE [visible |-> Trim(CollapseNewlines(RemoveTags(
                         Flatten(scanned.visibleParts)))),
           thinking |-> JoinWith(SelectSeq(cleaned, LAMBDA part : part # <<>>),
                                 <<"\n", "\n">>),
           open |-> scanned.stillOpen]

\* the pieces the texts are made of
SurfacePieces ==
  { openTag, <<"<", "T", "h", "i", "n", "k", "i", "n", "g", ">">>, closeTag,
    <<"<", "t", "h", "i">>, <<"n", "k", "i", "n", "g", ">">>,
    openTag \o <<"a">> \o closeTag,
    <<"a">>, <<" ">>, <<"a", "\n", "\n">>, <<"\n", "\n", "a">>, <<"I-dot">> }

\* the longest text, in pieces
MaxPieces == 3

RECURSIVE TextsOf(_)
TextsOf(n) ==
  IF n = 0 THEN {<<>>}
  ELSE {t \o p : t \in TextsOf(n - 1), p \in SurfacePieces}

SurfaceTexts == UNION {TextsOf(n) : n \in 0..MaxPieces}

InitSurface ==
  /\ pc = "idle"
  /\ options = [onChunk |-> FALSE, onThinking |-> FALSE]
  /\ requests = <<>>
  /\ responses = <<>>
  /\ drain = NewDrain
  /\ wire = <<>>
  /\ pos = 0
  /\ retryOf = "none"
  /\ fallbackMsg = <<>>
  /\ outcome = Pending
  /\ token = "unset"
  /\ req = [sessionId |-> JUndef]
  /\ sessionId = <<>>
  /\ sent = <<>>
  /\ app = Unmounted
  /\ \E text \in SurfaceTexts :
       input = [k |-> "extractAssistantSurface", v |-> text]
  /\ output = JUndef

\* extractAssistantSurface(text) returns
ExtractAssistantSurface ==
  /\ input.k = "extractAssistantSurface"
  /\ output = JUndef
  /\ output' = [k |-> "Surface", v |-> extractAssistantSurface(input.v)]
  /\ UNCHANGED <<pc, options, requests, responses, drain, wire, pos, retryOf,
                 fallbackMsg, outcome, token, req, sessionId, sent, app, input>>

NextSurface == ExtractAssistantSurface

SpecSurface == InitSurface /\ [][NextSurface]_vars

(***************************************************************************)
(* Vocabulary of the properties of the splitter                            *)
(***************************************************************************)
\* the first 1-based position from i on where the tag starts, whatever the
\* case of its letters; 0 when there is none
FindTag(text, tag, i) ==
  IF \E p \in i..Len(text) : MatchesAt(text, p, tag)
    THEN CHOOSE p \in i..Len(text) :
           /\ MatchesAt(text, p, tag)
           /\ \A q \in i..(p - 1) : ~MatchesAt(text, q, tag)
    ELSE 0

\* the inner texts of the well-formed regions of a text, from the 1-based
\* position i on: each region runs from an opening tag to the first closing
\* tag after it
RECURSIVE RegionsFrom(_, _)
RegionsFrom(text, i) ==
  LET opening == FindTag(text, openTag, i)
      closing == FindTag(text, closeTag, opening + Len(openTag))
  IN IF opening = 0 \/ closing = 0 THEN <<>>
     ELSE <<SubSeq(text, opening + Len(openTag), closing - 1)>>
            \o RegionsFrom(text, closing + Len(closeTag))

\* the 1-based position of the last opening tag of a text, 0 when there is
\* none
LastOpening(text) ==
  IF \E p \in 1..Len(text) : MatchesAt(text, p, openTag)
    THEN CHOOSE p \in 1..Len(text) :
           /\ MatchesAt(text, p, openTag)
           /\ \A q \in (p + 1)..Len(text) : ~MatchesAt(text, q, openTag)
    ELSE 0

\* the last opening tag of the text has no closing tag after it
LastOpeningUnclosed(text) ==
  /\ LastOpening(text) # 0
  /\ FindTag(text, closeTag, LastOpening(text) + Len(openTag)) = 0

\* the text holds an opening or a closing tag, whatever the case of its
\* letters
HasMarkup(text) ==
  \E p \in 1..Len(text) :
    MatchesAt(text, p, openTag) \/ MatchesAt(text, p, closeTag)

\* the inner texts without markup and surrounding blanks, the blank ones
\* left out, joined by a blank line
JoinedRegions(regions) ==
  JoinWith(SelectSeq([i \in 1..Len(regions) |-> Trim(RemoveTags(regions[i]))],
                     LAMBDA part : part # <<>>),
           <<"\n", "\n">>)

\* extractAssistantSurface has returned
Split == output.k = "Surface"

(***************************************************************************)
(* C24: for every text, the visible string holds no <thinking> and no      *)
(* </thinking> markup, in whatever case; and when every opening tag of the *)
(* text is closed, the thinking string is made of the inner texts of its   *)
(* well-formed regions (without surrounding blanks), in order, joined by a *)
(* blank line.                                                             *)
(***************************************************************************)
C24_RegionsSplit ==
  Split =>
    /\ ~HasMarkup(output.v.visible)
    /\ ~LastOpeningUnclosed(input.v) =>
         output.v.thinking = JoinedRegions(RegionsFrom(input.v, 1))

\* the text after the last opening tag
AfterLastOpening(text) ==
  SubSeq(text, LastOpening(text) + Len(openTag), Len(text))

\* the text before the last opening tag
BeforeLastOpening(text) == SubSeq(text, 1, LastOpening(text) - 1)

IsSuffix(s, t) ==
  Len(s) <= Len(t) /\ s = SubSeq(t, Len(t) - Len(s) + 1, Len(t))

\* how many letters a the text holds
Letters(text) == Cardinality({i \in 1..Len(text) : text[i] = "a"})

(***************************************************************************)
(* C25: open is true exactly when the last opening tag of the text has no  *)
(* closing tag after it; then the text after that tag (without markup and  *)
(* surrounding blanks) is the end of the thinking string, and the visible  *)
(* string holds no letter of it.                                           *)
(***************************************************************************)
C25_UnterminatedIsOpen ==
  Split =>
    /\ output.v.open = LastOpeningUnclosed(input.v)
    /\ LastOpeningUnclosed(input.v) =>
         /\ IsSuffix(Trim(RemoveTags(AfterLastOpening(input.v))),
                     output.v.thinking)
         /\ Letters(output.v.visible) <= Letters(BeforeLastOpening(input.v))

\* the text starts or ends with a blank
Untrimmed(text) ==
  text # <<>> /\ (text[1] \in Whitespace \/ text[Len(text)] \in Whitespace)

\* the text holds three line feeds in a row
HasLongNewlineRun(text) ==
  \E i \in 1..(Len(text) - 2) :
    text[i] = "\n" /\ text[i + 1] = "\n" /\ text[i + 2] = "\n"

(***************************************************************************)
(* C26: the visible string neither starts nor ends with a blank and holds  *)
(* no run of three or more line feeds.                                     *)
(***************************************************************************)
C26_VisibleTrimmedAndCollapsed ==
  Split =>
    /\ ~Untrimmed(output.v.visible)
    /\ ~HasLongNewlineRun(output.v.visible)

\* a text without a long run of line feeds whose visible parts join to one
\* when the region between them is removed
C26_Witness ==
  /\ Split
  /\ input.v = <<"a", "\n", "\n">> \o openTag \o <<"a">> \o closeTag
                  \o <<"\n", "\n", "a">>
  /\ output.v.visible = <<"a", "\n", "\n", "a">>

(***************************************************************************)
(* The citation resolver: parseCitations.  A text is a sequence of         *)
(* characters, a regular expression with the g flag is its lastIndex (a    *)
(* 0-based index), and a match is the record RegExp.exec returns.          *)
(***************************************************************************)

\* \d
DigitChars == <<"0", "1", "2", "3", "4", "5", "6", "7", "8", "9">>

IsDigit(ch) == \E i \in 1..Len(DigitChars) : DigitChars[i] = ch

DigitValue(ch) == (CHOOSE i \in 1..Len(DigitChars) : DigitChars[i] = ch) - 1

\* text[i] for a 0-based index, the empty string past the ends
At(text, i) == IF i + 1 \in 1..Len(text) THEN text[i + 1] ELSE ""

\* the length of the run \d+ takes at the 0-based index i
RECURSIVE DigitRun(_, _)
DigitRun(text, i) == IF IsDigit(At(text, i)) THEN 1 + DigitRun(text, i + 1) ELSE 0

\* /%\[(\d+)\]%/ matches at the 0-based index i
MarkerAt(text, i) ==
  LET n == DigitRun(text, i + 2)
  IN /\ At(text, i) = "%"
     /\ At(text, i + 1) = "["
     /\ n >= 1
     /\ At(text, i + 2 + n) = "]"
     /\ At(text, i + 3 + n) = "%"

noMatch == [index |-> -1, group |-> <<>>, lastIndex |-> 0]

\* pattern.exec(text) of a pattern with the g flag whose lastIndex is given:
\* the first match at or after lastIndex, its group and the new lastIndex,
\* or no match and lastIndex 0
exec(text, lastIndex) ==
  LET starts == {i \in lastIndex..(Len(text) - 1) : MarkerAt(text, i)}
      index == CHOOSE i \in starts : \A j \in starts : i <= j
      n == DigitRun(text, index + 2)
  IN IF starts = {} THEN noMatch
     ELSE [index |-> index, group |-> SubSeq(text, index + 3, index + 2 + n),
           lastIndex |-> index + 4 + n]

\* Number(group) for a run of digits
RECURSIVE Number(_)
Number(group) ==
  IF group = <<>> THEN 0
  ELSE 10 * Number(SubSeq(group, 1, Len(group) - 1))
         + DigitValue(group[Len(group)])

\* Number.isFinite of the number of a run of digits
NumberIsFinite(num) == num \in Nat

Citation(num) == [id |-> <<"citation-", num>>, number |-> num]

\* the citations in the order the scan finds them, every number once
SortByNumberSkipped(citations) == citations

\* citations.sort((a, b) => a.number - b.number): a stable ascending sort
RECURSIVE SortByNumber(_)
SortByNumber(citations) ==
  IF citations = <<>> THEN <<>>
  ELSE LET last == citations[Len(citations)]
           sorted == SortByNumber(SubSeq(citations, 1, Len(citations) - 1))
           before == SelectSeq(sorted, LAMBDA c : c.number <= last.number)
           after == SelectSeq(sorted, LAMBDA c : c.number > last.number)
       IN before \o <<last>> \o after

\* the while loop of parseCitations
RECURSIVE CitationScan(_, _, _, _)
CitationScan(text, lastIndex, found, citations) ==
  LET match == exec(text, lastIndex)
      num == Number(match.group)
  IN IF match.index = -1
       THEN [citations |-> citations, lastIndex |-> match.lastIndex]
     ELSE IF NumberIsFinite(num) /\ num \notin found
       THEN CitationScan(text, match.lastIndex, found \cup {num},
                         Append(citations, Citation(num)))
     ELSE CitationScan(text, match.lastIndex, found, citations)

\* text.replace(citationPattern, (_, num) => `__CITATION_${num}__`)
RECURSIVE ReplaceMarkers(_, _)
ReplaceMarkers(text, lastIndex) ==
  LET match == exec(text, lastIndex)
  IN IF match.index = -1 THEN SubSeq(text, lastIndex + 1, Len(text))
     ELSE SubSeq(text, lastIndex + 1, match.index)
            \o <<"__CITATION_">> \o match.group \o <<"__">>
            \o ReplaceMarkers(text, match.lastIndex)

\* parseCitations of the citation utilities: the pattern is shared by the
\* calls, its lastIndex is reset before the scan
parseCitations(text, patternLastIndex) ==
  LET scanned == CitationScan(text, 0, {}, <<>>)
  IN [citations |-> SortByNumber(scanned.citations), cleanText |-> text,
      lastIndex |-> scanned.lastIndex]

\* parseCitations of the earlier revision: a new pattern for every call,
\* parseInt in place of Number, markers replaced by placeholders
parseCitationsPlaceholders(text, patternLastIndex) ==
  LET scanned == CitationScan(text, 0, {}, <<>>)
  IN [citations |-> SortByNumber(scanned.citations),
      cleanText |-> ReplaceMarkers(text, 0),
      lastIndex |-> patternLastIndex]

\* the pieces the texts with markers are made of
MarkerPieces ==
  { <<"%", "[", "7", "]", "%">>, <<"%", "[", "0", "7", "]", "%">>,
    <<"%", "[", "1", "2", "]", "%">>, <<"%", "[", "1", "]", "%">>,
    <<"%", "[">>, <<"]", "%">>, <<"[", "1", "]", "%">>, <<"7">>, <<"a">> }

\* the longest text with markers, in pieces
MaxMarkerPieces == 3

RECURSIVE MarkerTextsOf(_)
MarkerTextsOf(n) ==
  IF n = 0 THEN {<<>>}
  ELSE {t \o p : t \in MarkerTextsOf(n - 1), p \in MarkerPieces}

MarkerTexts == UNION {MarkerTextsOf(n) : n \in 0..MaxMarkerPieces}

\* the two revisions of parseCitations
Revisions == {"citation-utils", "api"}

\* how often the same text is resolved
MaxCalls == 2

InitCitations ==
  /\ pc = "idle"
  /\ options = [onChunk |-> FALSE, onThinking |-> FALSE]
  /\ requests = <<>>
  /\ responses = <<>>
  /\ drain = NewDrain
  /\ wire = <<>>
  /\ pos = 0
  /\ retryOf = "none"
  /\ fallbackMsg = <<>>
  /\ outcome = Pending
  /\ token = "unset"
  /\ req = [sessionId |-> JUndef]
  /\ sessionId = <<>>
  /\ sent = <<>>
  /\ app = Unmounted
  /\ \E text \in MarkerTexts, revision \in Revisions :
       input = [k |-> "parseCitations", v |-> text, revision |-> revision]
  /\ output = [k |-> "Pattern", calls |-> 0, lastIndex |-> 0,
               first |-> <<>>, v |-> <<>>]

ParseCitations ==
  /\ input.k = "parseCitations"
  /\ output.calls < MaxCalls
  /\ LET result == IF input.revision = "api"
                     THEN parseCitationsPlaceholders(input.v, output.lastIndex)
                     ELSE parseCitations(input.v, output.lastIndex)
     IN output' = [k |-> "Citations", calls |-> output.calls + 1,
                   lastIndex |-> result.lastIndex,
                   first |-> IF output.calls = 0 THEN result.citations
                             ELSE output.first,
                   v |-> result.citations]
  /\ UNCHANGED <<pc, options, requests, responses, drain, wire, pos, retryOf,
                 fallbackMsg, outcome, token, req, sessionId, sent, app, input>>

NextCitations == ParseCitations

SpecCitations == InitCitations /\ [][NextCitations]_vars

\* the text holds a marker from the 0-based index i to j - 1
IsMarker(text, i, j) ==
  /\ j - i >= 5
  /\ At(text, i) = "%" /\ At(text, i + 1) = "["
  /\ \A k \in (i + 2)..(j - 3) : IsDigit(At(text, k))
  /\ At(text, j - 2) = "]" /\ At(text, j - 1) = "%"

\* the numbers of the markers of the text, read from left to right; a marker
\* starts after the end of the marker before it
RECURSIVE MarkerNumbers(_, _)
MarkerNumbers(text, from) ==
  LET spans == {span \in (from..Len(text)) \X (from..Len(text)) :
                  IsMarker(text, span[1], span[2])}
      first == CHOOSE span \in spans : \A other \in spans : span[1] <= other[1]
  IN IF spans = {} THEN {}
     ELSE {Number(SubSeq(text, first[1] + 3, first[2] - 2))}
            \cup MarkerNumbers(text, first[2])

CitationsReturned == output.k = "Citations"

(***************************************************************************)
(* C27: parseCitations returns one Citation for every number of a marker   *)
(* of the text, however often the number occurs, in strictly ascending     *)
(* order of the numbers, and a second call on the same text returns the    *)
(* same sequence as the first.                                             *)
(***************************************************************************)
C27_CitationsDistinctSorted ==
  CitationsReturned =>
    /\ {output.v[i].number : i \in 1..Len(output.v)} = MarkerNumbers(input.v, 0)
    /\ \A i \in 1..(Len(output.v) - 1) :
         output.v[i].number < output.v[i + 1].number
    /\ output.v = output.first

\* the same marker of 7 three times, resolved twice
C27_Witness ==
  /\ CitationsReturned
  /\ output.calls = MaxCalls
  /\ \E p \in MarkerPieces :
       /\ Number(SubSeq(p, 3, Len(p) - 2)) = 7
       /\ IsMarker(p, 0, Len(p))
       /\ input.v = p \o p \o p
  /\ output.v = <<Citation(7)>>

(***************************************************************************)
(* The documents of a structured message: the citation number of a         *)
(* document, the map from citation numbers to documents and the panel of   *)
(* the retrieved documents.  A document is its id (a sequence of           *)
(* characters) and its citation_number field (a value); a document object  *)
(* is referred to by its 1-based place in data.documents.                  *)
(***************************************************************************)

\* the number NaN
NaN == [k |-> "nan", v |-> 0]

\* typeof x === 'number' && Number.isFinite(x)
FiniteNumber(x) == x.k = "num"

\* id.match(/(\d+)(?!.*\d)/): the first run of digits with no digit after it
\* (ids have no line break)
matchTrailingDigits(id) ==
  LET starts == {i \in 0..(Len(id) - 1) :
                   /\ IsDigit(At(id, i))
                   /\ \A j \in (i + DigitRun(id, i))..(Len(id) - 1) :
                        ~IsDigit(At(id, j))}
      index == CHOOSE i \in starts : \A j \in starts : i <= j
  IN IF starts = {} THEN noMatch
     ELSE [index |-> index,
           group |-> SubSeq(id, index + 1, index + DigitRun(id, index)),
           lastIndex |-> 0]

noNumber == JNull

\* the id before the citation_number field
extractCitationNumberIdFirst(doc, fallbackIndex) ==
  LET match == matchTrailingDigits(doc.id)
  IN IF match.index # -1 THEN JNum(Number(match.group))
     ELSE IF FiniteNumber(doc.citation_number) THEN doc.citation_number
     ELSE JNum(fallbackIndex + 1)

\* extractCitationNumberFromDocument(doc, fallbackIndex) with an index given
extractCitationNumberFromDocument(doc, fallbackIndex) ==
  LET match == matchTrailingDigits(doc.id)
  IN IF FiniteNumber(doc.citation_number) THEN doc.citation_number
     ELSE IF match.index # -1 /\ NumberIsFinite(Number(match.group))
       THEN JNum(Number(match.group))
     ELSE JNum(fallbackIndex + 1)

\* data.documents.forEach of citationDocMap over the first n documents
RECURSIVE citationDocMapOf(_, _)
citationDocMapOf(documents, n) ==
  IF n = 0 THEN << >>
  ELSE LET map == citationDocMapOf(documents, n - 1)
           citationNumber ==
             extractCitationNumberFromDocument(documents[n], n - 1)
       IN IF citationNumber # noNumber /\ citationNumber.v \notin DOMAIN map
            THEN (citationNumber.v :> n) @@ map
          ELSE map

\* the memo citationDocMap: citation number to document
citationDocMap(documents) ==
  IF documents.k # "arr" THEN << >>
  ELSE citationDocMapOf(documents.v, Len(documents.v))

\* the state of a StructuredMessage when it is first rendered
NewPanel(documents) ==
  [k |-> "Panel", event |-> "render", clicked |-> 0,
   citationDocMap |-> citationDocMap(documents),
   documentsOpen |-> FALSE, documentsVisible |-> FALSE,
   frames |-> 0, closeTimer |-> FALSE,
   expandedDocIds |-> {}, highlightedDocId |-> JNull]

\* a panel that is not shown
openDocumentsNotShown(panel) == panel

\* openDocuments(): frames counts the requested animation frames
openDocuments(panel) ==
  [panel EXCEPT !.closeTimer = FALSE, !.documentsVisible = TRUE,
                !.frames = @ + 1]

\* closeDocuments()
closeDocuments(panel) ==
  [panel EXCEPT !.documentsOpen = FALSE, !.closeTimer = TRUE]

\* data.documents && data.documents.length > 0
HasDocuments(documents) == documents.k = "arr" /\ documents.v # <<>>

\* handleCitationClick(citationNumber)
handleCitationClick(panel, documents, citationNumber) ==
  IF ~HasDocuments(documents) THEN panel
  ELSE IF citationNumber \in DOMAIN panel.citationDocMap
    THEN LET matchingDoc == documents.v[panel.citationDocMap[citationNumber]]
         IN openDocuments(
              [panel EXCEPT !.expandedDocIds = @ \cup {matchingDoc.id},
                            !.highlightedDocId = JStr(matchingDoc.id)])
  ELSE openDocuments(panel)

\* the documents the messages hold
Documents ==
  { [id |-> <<"d", "2">>, citation_number |-> JNum(1)],
    [id |-> <<"1", "d", "2", "x">>, citation_number |-> NaN],
    [id |-> <<"d">>, citation_number |-> JUndef],
    [id |-> <<"d", "1", "2">>, citation_number |-> JStr(<<"1">>)] }

\* the most documents of a message
MaxDocuments == 2

\* the most animation frames requested and not yet run
MaxPendingFrames == 1

DocumentLists ==
  UNION {[1..n -> Documents] : n \in 0..MaxDocuments}

\* the numbers of the citations the user activates
ClickNumbers == {1, 2, 7, 12}

InitDocuments ==
  /\ pc = "idle"
  /\ options = [onChunk |-> FALSE, onThinking |-> FALSE]
  /\ requests = <<>>
  /\ responses = <<>>
  /\ drain = NewDrain
  /\ wire = <<>>
  /\ pos = 0
  /\ retryOf = "none"
  /\ fallbackMsg = <<>>
  /\ outcome = Pending
  /\ token = "unset"
  /\ req = [sessionId |-> JUndef]
  /\ sessionId = <<>>
  /\ sent = <<>>
  /\ app = Unmounted
  /\ \E documents \in {JUndef} \cup {JArr(list) : list \in DocumentLists} :
       input = [k |-> "StructuredMessage", v |-> documents]
  /\ output = JUndef

Rendered == input.k = "StructuredMessage" /\ output.k = "Panel"

Idle ==
  UNCHANGED <<pc, options, requests, responses, drain, wire, pos, retryOf,
              fallbackMsg, outcome, token, req, sessionId, sent, app, input>>

\* the first render of the message
RenderStructuredMessage ==
  /\ input.k = "StructuredMessage"
  /\ output = JUndef
  /\ output' = NewPanel(input.v)
  /\ Idle

\* the user activates a citation of the answer
HandleCitationClick ==
  /\ Rendered
  /\ output.frames < MaxPendingFrames
  /\ \E citationNumber \in ClickNumbers :
       output' = [handleCitationClick(output, input.v, citationNumber)
                    EXCEPT !.event = "click", !.clicked = citationNumber]
  /\ Idle

\* the user presses the header of the documents
HeaderClick ==
  /\ Rendered
  /\ HasDocuments(input.v)
  /\ output.documentsOpen \/ output.frames < MaxPendingFrames
  /\ output' = [(IF output.documentsOpen THEN closeDocuments(output)
                 ELSE openDocuments(output)) EXCEPT !.event = "header"]
  /\ Idle

\* the user closes the panel
CloseDocuments ==
  /\ Rendered
  /\ HasDocuments(input.v)
  /\ output.documentsVisible
  /\ output' = [closeDocuments(output) EXCEPT !.event = "close"]
  /\ Idle

\* the timer of closeDocuments runs
CloseTimerFires ==
  /\ Rendered
  /\ output.closeTimer
  /\ output' = [output EXCEPT !.documentsVisible = FALSE,
                              !.closeTimer = FALSE, !.event = "timer"]
  /\ Idle

\* a requested animation frame runs
AnimationFrame ==
  /\ Rendered
  /\ output.frames > 0
  /\ output' = [output EXCEPT !.documentsOpen = TRUE, !.frames = @ - 1,
                              !.event = "frame"]
  /\ Idle

\* toggleDocument(id) of a document of the panel
ToggleDocument ==
  /\ Rendered
  /\ HasDocuments(input.v)
  /\ output.documentsVisible
  /\ \E i \in 1..Len(input.v.v) :
       LET id == input.v.v[i].id
       IN output' = [output EXCEPT
                       !.expandedDocIds =
                         IF id \in @ THEN @ \ {id} ELSE @ \cup {id},
                       !.event = "toggle"]
  /\ Idle

\* the highlight ends after its time
HighlightTimeout ==
  /\ Rendered
  /\ output.highlightedDocId # JNull
  /\ Truthy(output.highlightedDocId)
  /\ output' = [output EXCEPT !.highlightedDocId = JNull,
                              !.event = "highlight"]
  /\ Idle

NextDocuments ==
  \/ RenderStructuredMessage
  \/ HandleCitationClick
  \/ HeaderClick
  \/ CloseDocuments
  \/ CloseTimerFires
  \/ AnimationFrame
  \/ ToggleDocument
  \/ HighlightTimeout

SpecDocuments == InitDocuments /\ [][NextDocuments]_vars

\* the documents of the message, none when the field is absent
DocumentsOf(documents) == IF documents.k = "arr" THEN documents.v ELSE <<>>

\* the last place of the id that holds a digit, 0 when there is none
LastDigit(id) ==
  IF \E i \in 1..Len(id) : IsDigit(id[i])
    THEN CHOOSE i \in 1..Len(id) :
           IsDigit(id[i]) /\ \A j \in (i + 1)..Len(id) : ~IsDigit(id[j])
  ELSE 0

\* the run of digits of the id that ends at its last digit
TrailingDigits(id) ==
  LET last == LastDigit(id)
      first == CHOOSE i \in 1..last :
                 /\ \A j \in i..last : IsDigit(id[j])
                 /\ i = 1 \/ ~IsDigit(id[i - 1])
  IN SubSeq(id, first, last)

\* the citation number of the document at a 1-based place, by priority
NumberByPriority(doc, place) ==
  IF doc.citation_number.k = "num" THEN doc.citation_number.v
  ELSE IF LastDigit(doc.id) # 0 THEN Number(TrailingDigits(doc.id))
  ELSE place

CitationActivated == Rendered /\ output'.event = "click" /\ UNCHANGED input

\* the panel is opened: shown, not about to be hidden, its opening requested
PanelOpened ==
  /\ output'.documentsVisible
  /\ ~output'.closeTimer
  /\ output'.frames = output.frames + 1

\* what the user sees of the panel and of the documents is what it was
PanelUnchanged ==
  /\ output'.documentsVisible = output.documentsVisible
  /\ output'.documentsOpen = output.documentsOpen
  /\ output'.closeTimer = output.closeTimer
  /\ output'.frames = output.frames
  /\ output'.expandedDocIds = output.expandedDocIds
  /\ output'.highlightedDocId = output.highlightedDocId

\* the places of the documents whose citation number is the one activated
Matching ==
  {i \in 1..Len(DocumentsOf(input.v)) :
     NumberByPriority(DocumentsOf(input.v)[i], i) = output'.clicked}

InitCancel ==
  /\ pc = "idle"
  /\ options = [onChunk |-> FALSE, onThinking |-> FALSE]
  /\ requests = <<>>
  /\ responses = <<>>
  /\ drain = NewDrain
  /\ wire = <<>>
  /\ pos = 0
  /\ retryOf = "none"
  /\ fallbackMsg = <<>>
  /\ outcome = Pending
  /\ token = "unset"
  /\ req = [sessionId |-> JUndef]
  /\ sessionId = <<>>
  /\ sent = <<>>
  /\ app = Unmounted
  /\ input = [k |-> "signal", aborted |-> FALSE, calls |-> 0]
  /\ output = JUndef

\* the call has been made and is not settled
InFlight == pc # "idle" /\ outcome.state = "pending"

\* the caller triggers its cancellation signal during the call
Abort ==
  /\ input.k = "signal"
  /\ ~input.aborted
  /\ InFlight
  /\ input' = [input EXCEPT !.aborted = TRUE, !.calls = Len(drain.calls)]
  /\ UNCHANGED <<pc, options, requests, responses, drain, wire, pos, retryOf,
                 fallbackMsg, outcome, token, req, sessionId, sent, app, output>>

NextCancel ==
  \/ Invoke
  \/ TokenMissing
  \/ FirstFetch
  \/ FetchRejects
  \/ Respond404Streaming
  \/ Respond400Streaming
  \/ RespondError
  \/ RespondStream
  \/ RespondBody
  \/ RetryFails
  \/ RetrySucceeds
  \/ ReadChunk
  \/ ReadDone
  \/ ReadThrows
  \/ Abort

SpecCancel == InitCancel /\ [][NextCancel]_vars

\* the cancellation signal was triggered during the call
Cancelled == input.k = "signal" /\ input.aborted

(***************************************************************************)
(* C30: once the cancellation signal is triggered during a call, no        *)
(* further part of the stream is read, no onChunk or onThinking callback   *)
(* is invoked any more and the call does not resolve: it rejects.          *)
(***************************************************************************)
C30_CancelStopsCall ==
  Cancelled =>
    /\ Len(drain.calls) = input.calls
    /\ outcome.state # "resolved"

\* the callbacks of the call so far hold no done notification but, at most,
\* as the last of them
DoneIsLast(calls) == \A i \in 1..(Len(calls) - 1) : ~calls[i].done

(***************************************************************************)
(* C34: within a call, an onThinking invocation with done = true is the    *)
(* last callback: no onChunk, no onThinking delta and no second done       *)
(* notification follows it, and once the call has settled no callback is   *)
(* invoked any more.                                                       *)
(***************************************************************************)
C34_DoneIsLastCallback ==
  [][/\ DoneIsLast(drain'.calls)
     /\ outcome.state # "pending" => drain'.calls = drain.calls]_vars

\* a resolved call whose done notification came after a chunk, and a call
\* that went on to its retry after the done notification of an error event
C34_Witness ==
  /\ pc = "settled"
  /\ Len(drain.calls) >= 2
  /\ drain.calls[Len(drain.calls)].done
  /\ drain.calls[1].fn = "onChunk"
  /\ retryOf = "stream"

\* the text of the stream read so far
TextRead == SubSeq(wire, 1, pos)

\* the drain of a text that arrives in one read
InOneRead(text) ==
  consume([NewDrain EXCEPT !.buffer = text], options.onThinking)

\* the drain of a text that arrives in one read and ends after it, and the
\* response it returns when nothing was thrown
EndedInOneRead(text) ==
  LET c == FlushTail(InOneRead(text), options.onThinking)
      f == Finish(c, options.onThinking)
  IN IF InOneRead(text).thrown
       THEN [c |-> InOneRead(text), outcome |-> Pending]
     ELSE IF c.thrown THEN [c |-> c, outcome |-> Pending]
     ELSE [c |-> f.c, outcome |-> Resolved(f.response)]

\* what of the drain a caller can observe, and the text kept for the next
\* read
Observable(c) ==
  <<c.calls, c.aggregated, c.thinkingBuffer, c.finalPayload, c.thrown,
    c.error, c.buffer, [i \in 1..Len(c.log) |-> c.log[i].segment]>>

\* the drain of an event stream is under way or over, and no read failed
Draining ==
  /\ Len(responses) >= 1 /\ responses[1].kind = "stream"
  /\ drain.cause # "read"

(***************************************************************************)
(* C35: the frames dispatched, the callbacks invoked and the response      *)
(* returned depend on the text of the stream only, not on the reads it     *)
(* arrives in: after any reads, the drain is where the drain of the same   *)
(* text arriving in one read is, and when the stream has ended the         *)
(* callbacks and the response are those of the text arriving in one read.  *)
(***************************************************************************)
C35_ReadsDoNotMatter ==
  Draining =>
    IF drain.ended
      THEN /\ Observable(drain) = Observable(EndedInOneRead(TextRead).c)
           /\ ~drain.thrown => outcome = EndedInOneRead(TextRead).outcome
    ELSE Observable(drain) = Observable(InOneRead(TextRead))

\* a read ended between the two line feeds that end a frame, after a frame
\* that was dispatched; the next reads bring the rest
C35_Witness ==
  /\ Draining
  /\ pc = "drain"
  /\ Len(drain.calls) = 1
  /\ drain.buffer = <<"data:", "{type:chunk,content:b}", "\n">>
  /\ pos < Len(wire)

(***************************************************************************)
(* The call with streams that end in a final payload after chunks          *)
(***************************************************************************)
\* payloads of the frames of these streams
ReplyPayloads ==
  { "{type:chunk,content:a}",
    "{type:final,agentcore:{message:{answer:A,sources:[]}}}",
    "{type:final,agentcore:{message:{answer:'No response'}}}",
    "{type:final,agentcore:{message:{answer:''}}}",
    "{type:final,thinking:T,response:R}" }

RECURSIVE ReplyWiresOf(_)
ReplyWiresOf(n) ==
  IF n = 0 THEN {<<>>}
  ELSE {w \o Frame(p) : w \in ReplyWiresOf(n - 1), p \in ReplyPayloads}

ReplyWires == UNION {ReplyWiresOf(n) : n \in 0..MaxFrames}

\* the stream carries any text of ReplyWires
RespondReplyStream == RespondStreamWith(ReplyWires)

NextReply ==
  \/ Invoke
  \/ TokenMissing
  \/ FirstFetch
  \/ FetchRejects
  \/ RespondReplyStream
  \/ RespondBody
  \/ RetryFails
  \/ RetrySucceeds
  \/ ReadChunk
  \/ ReadDone
  \/ ReadThrows

SpecReply == Init /\ [][NextReply]_vars

\* the call resolved with a ChatResponse that carries structuredData
StructuredReply ==
  outcome.state = "resolved" /\ outcome.structuredData # JUndef

(***************************************************************************)
(* C37: whenever the ChatResponse a call resolves with carries             *)
(* structuredData, structuredData.answer is a non-blank string and the     *)
(* reply is that string, whether the response was read as a whole or as a  *)
(* stream.                                                                 *)
(***************************************************************************)
C37_AnswerIsReply ==
  StructuredReply =>
    /\ NonBlankString(Get(outcome.structuredData, "answer"))
    /\ outcome.reply = Get(outcome.structuredData, "answer").v

(***************************************************************************)
(* One turn of the conversation: sendMessage of the App component, the     *)
(* callbacks it hands to invokeAgent, the animation frames that copy the   *)
(* buffers of the turn into its assistant message, and the reset           *)
(***************************************************************************)
\* the user message and the empty assistant message sendMessage appends
UserMessage(id, text) ==
  [id |-> id, role |-> "user", content |-> text, thinking |-> <<>>,
   thinkingDone |-> FALSE, structuredData |-> JUndef]

AssistantMessage(id) ==
  [id |-> id, role |-> "assistant", content |-> <<>>, thinking |-> <<>>,
   thinkingDone |-> FALSE, structuredData |-> JUndef]

\* Map.prototype.set and Map.prototype.delete on a map of buffer entries
MapSet(map, key, entry) ==
  [k \in DOMAIN map \cup {key} |-> IF k = key THEN entry ELSE map[k]]

MapDelete(map, key) == [k \in DOMAIN map \ {key} |-> map[k]]

\* { text: '', raf: null }
NewEntry == [text |-> <<>>, raf |-> JNull]

\* the callback an animation frame was requested for: the flush of the
\* chunk buffer or of the thinking buffer of the turn of assistantId; done
\* is the done of the onThinking call that requested the frame
ChunkFlush(assistantId) ==
  [kind |-> "chunk", assistantId |-> assistantId, done |-> FALSE]

ThinkingFlush(assistantId, done) ==
  [kind |-> "thinking", assistantId |-> assistantId, done |-> done]

\* prev.map(msg => msg.id !== assistantId ? msg : update(msg))
MapMessages(messages, assistantId, update(_)) ==
  [i \in 1..Len(messages) |->
     IF messages[i].id # assistantId THEN messages[i] ELSE update(messages[i])]

\* a flush of the chunk buffer that writes every assistant message of the
\* conversation
flushChunkEveryMessage(t, assistantId) ==
  IF assistantId \notin DOMAIN t.streamBuffers THEN t
  ELSE LET processed == extractAssistantSurface(t.streamBuffers[assistantId].text)
       IN [t EXCEPT
             !.messages = [i \in 1..Len(@) |->
                IF @[i].role # "assistant" THEN @[i]
                ELSE [@[i] EXCEPT !.content = processed.visible]],
             !.streamBuffers[assistantId].raf = JNull]

\* the callback of the frame requested by onChunk
flushChunk(t, assistantId) ==
  IF assistantId \notin DOMAIN t.streamBuffers THEN t
  ELSE LET processed == extractAssistantSurface(t.streamBuffers[assistantId].text)
           update(msg) ==
             [msg EXCEPT !.content = processed.visible,
                         !.thinking = OrElse(processed.thinking, msg.thinking)]
       IN [t EXCEPT !.messages = MapMessages(@, assistantId, update),
                    !.streamBuffers[assistantId].raf = JNull]

\* flush of onThinking, for the done of the call that defined it
flushThinking(t, assistantId, done) ==
  IF assistantId \notin DOMAIN t.thinkingBuffers THEN t
  ELSE LET latest == t.thinkingBuffers[assistantId]
           update(msg) ==
             [msg EXCEPT !.thinking = latest.text,
                         !.thinkingDone = IF done THEN TRUE ELSE @]
       IN [t EXCEPT !.messages = MapMessages(@, assistantId, update),
                    !.thinkingBuffers[assistantId].raf = JNull]

\* onChunk of the turn of assistantId
onChunk(t, assistantId, chunk) ==
  IF chunk = <<>> \/ assistantId \notin DOMAIN t.streamBuffers THEN t
  ELSE LET entry == t.streamBuffers[assistantId]
           text == entry.text \o chunk
       IN IF entry.raf # JNull
            THEN [t EXCEPT !.streamBuffers[assistantId].text = text]
          ELSE [t EXCEPT
                  !.streamBuffers[assistantId] =
                     [text |-> text, raf |-> ChunkFlush(assistantId)],
                  !.frames = Append(@, ChunkFlush(assistantId))]

\* onThinking of the turn of assistantId, for one call record of the core;
\* the frame requested on line 731 leaves entry.raf set, so the flush of
\* line 735 does not run
onThinking(t, assistantId, call) ==
  IF assistantId \notin DOMAIN t.thinkingBuffers THEN t
  ELSE LET entry == t.thinkingBuffers[assistantId]
           text == IF call.kind = "replace" THEN call.text
                   ELSE IF call.kind = "delta" THEN entry.text \o call.text
                   ELSE entry.text
           flush == ThinkingFlush(assistantId, call.done)
       IN IF entry.raf # JNull
            THEN [t EXCEPT !.thinkingBuffers[assistantId].text = text]
          ELSE [t EXCEPT
                  !.thinkingBuffers[assistantId] = [text |-> text, raf |-> flush],
                  !.frames = Append(@, flush)]

\* the callbacks of the core, in the order they were called
RECURSIVE Deliver(_, _, _)
Deliver(t, assistantId, calls) ==
  IF calls = <<>> THEN t
  ELSE Deliver(IF Head(calls).fn = "onChunk"
                 THEN onChunk(t, assistantId, Head(calls).text)
                 ELSE onThinking(t, assistantId, Head(calls)),
               assistantId, Tail(calls))

\* the callbacks of the animation frames requested so far, in the order of
\* the requests
RECURSIVE RunFrames(_, _)
RunFrames(t, frames) ==
  IF frames = <<>> THEN t
  ELSE RunFrames(IF Head(frames).kind = "chunk"
                   THEN flushChunk(t, Head(frames).assistantId)
                   ELSE flushThinking(t, Head(frames).assistantId,
                                      Head(frames).done),
                 Tail(frames))

\* the entries stay in the maps and their frames stay requested
DropBuffersKept(t, assistantId) == t

\* cancelAnimationFrame of the frame of each entry of the turn, and the
\* delete of both entries (lines 756-765 and 777-786)
DropBuffers(t, assistantId) ==
  LET pending(map) == IF assistantId \in DOMAIN map /\ map[assistantId].raf # JNull
                        THEN {map[assistantId].raf} ELSE {}
      cancelled == pending(t.streamBuffers) \cup pending(t.thinkingBuffers)
  IN [t EXCEPT !.frames = SelectSeq(@, LAMBDA f : f \notin cancelled),
               !.streamBuffers = MapDelete(@, assistantId),
               !.thinkingBuffers = MapDelete(@, assistantId)]

\* the statements after the await of invokeAgent, for the response it
\* resolved with, and the finally clause
commitReply(t, assistantId, response) ==
  LET structuredData == response.structuredData
      answer == Get(structuredData, "answer")
      displayContent == IF answer.k \in {"undef", "null"} THEN response.reply
                        ELSE answer.v
      processedReply == extractAssistantSurface(response.reply)
      finalVisible == IF Truthy(structuredData) THEN displayContent
                      ELSE processedReply.visible
      update(msg) ==
        [msg EXCEPT !.content = finalVisible,
                    !.thinking = OrElse(processedReply.thinking, msg.thinking),
                    !.structuredData = structuredData,
                    !.thinkingDone = TRUE]
  IN [DropBuffers([t EXCEPT !.messages = MapMessages(@, assistantId, update)],
                  assistantId)
        EXCEPT !.loading = FALSE, !.event = "commit"]

\* the catch clause of sendMessage, for the message of the error, and the
\* finally clause
showError(t, assistantId, message) ==
  LET errorMessage == OrElse(message, <<"request failed">>)
      update(msg) ==
        [msg EXCEPT !.content = <<"Error: ">> \o errorMessage,
                    !.structuredData = JUndef,
                    !.thinkingDone = TRUE]
  IN [DropBuffers([t EXCEPT !.messages = MapMessages(@, assistantId, update)],
                  assistantId)
        EXCEPT !.loading = FALSE, !.event = "error"]

\* payloads of the frames of the stream of a turn
TurnPayloads ==
  { "{type:chunk,content:a}", "{type:thinking,content:t}",
    "{type:final,agentcore:{message:{answer:A,sources:[]}}}",
    "{type:error}" }

\* the longest stream of a turn, in frames
MaxTurnFrames == 1

RECURSIVE TurnWiresOf(_)
TurnWiresOf(n) ==
  IF n = 0 THEN {<<>>}
  ELSE {w \o Frame(p) : w \in TurnWiresOf(n - 1), p \in TurnPayloads}

TurnWires == UNION {TurnWiresOf(n) : n \in 0..MaxTurnFrames}

\* bodies of a response that is not a stream
TurnBodies == { <<"plain">>, <<"{output:{message:{answer:A,sources:[]}}}">> }

\* messages of the errors invokeAgent rejects with before it reads a stream
TurnErrors == { <<"Missing access token">>, <<>> }

\* the most turns of a conversation
MaxSends == 2

\* the component after its first render, with no turn in flight; dev is
\* import.meta.env.DEV of the build
NewTurnState(dev) ==
  [k |-> "turns", dev |-> dev, loading |-> FALSE, resetting |-> FALSE,
   sessionId |-> 0, messages |-> <<>>,
   streamBuffers |-> <<>>, thinkingBuffers |-> <<>>, frames |-> <<>>,
   turns |-> 0, assistantId |-> 0, before |-> <<>>, event |-> "none"]

InitTurn ==
  /\ pc = "idle"
  /\ options = [onChunk |-> TRUE, onThinking |-> TRUE]
  /\ requests = <<>>
  /\ responses = <<>>
  /\ drain = NewDrain
  /\ wire = <<>>
  /\ pos = 0
  /\ retryOf = "none"
  /\ fallbackMsg = <<>>
  /\ outcome = Pending
  /\ token = "unset"
  /\ req = [sessionId |-> JUndef]
  /\ sessionId = <<>>
  /\ sent = <<>>
  /\ app \in {NewTurnState(dev) : dev \in BOOLEAN}
  /\ input = JUndef
  /\ output = JUndef

\* what a step of a turn leaves alone
TurnFrame == UNCHANGED <<options, requests, responses, token, req, sessionId,
                         sent, input, output>>

\* sendMessage(text) for a non-blank text: the ids of the two messages are
\* fresh, the entries of the turn are set and invokeAgent is called
sendMessage(t, text) ==
  IF text = <<>> \/ t.loading THEN t
  ELSE LET userId == 2 * t.turns + 1
           assistantId == 2 * t.turns + 2
       IN [t EXCEPT
             !.messages = @ \o <<UserMessage(userId, text),
                                 AssistantMessage(assistantId)>>,
             !.loading = TRUE,
             !.streamBuffers = MapSet(@, assistantId, NewEntry),
             !.thinkingBuffers = MapSet(@, assistantId, NewEntry),
             !.turns = @ + 1,
             !.assistantId = assistantId,
             !.before = t.messages,
             !.event = "send"]

\* the form is submitted with a non-blank input
TurnSends ==
  /\ app.turns < MaxSends
  /\ app' = sendMessage(app, <<"q">>)
  /\ IF app.loading
       THEN UNCHANGED <<pc, drain, wire, pos, retryOf, fallbackMsg, outcome>>
       ELSE /\ pc' = "fetch"
            /\ drain' = NewDrain
            /\ wire' = <<>>
            /\ pos' = 0
            /\ retryOf' = "none"
            /\ fallbackMsg' = <<>>
            /\ outcome' = Pending
  /\ TurnFrame

\* invokeAgent resolved: the statements after the await run before any
\* animation frame
Resolves(t, response) ==
  /\ outcome' = Resolved(response)
  /\ app' = commitReply(t, t.assistantId, response)
  /\ pc' = "idle"

\* invokeAgent rejected: the catch clause runs before any animation frame
Rejects(t, message) ==
  /\ outcome' = Rejected(message)
  /\ app' = showError(t, t.assistantId, message)
  /\ pc' = "idle"

\* invokeAgent rejects before it reads a stream
TurnRejects ==
  /\ pc = "fetch"
  /\ \E message \in TurnErrors : Rejects(app, message)
  /\ UNCHANGED <<drain, wire, pos, retryOf, fallbackMsg>>
  /\ TurnFrame

\* the response is not a stream: its body is normalized
TurnAnswersBody ==
  /\ pc = "fetch"
  /\ \E body \in TurnBodies :
       Resolves(app, interpretParsedResponse(safeJsonParse(body)))
  /\ UNCHANGED <<drain, wire, pos, retryOf, fallbackMsg>>
  /\ TurnFrame

\* the response is an event stream
TurnStreams ==
  /\ pc = "fetch"
  /\ wire' \in TurnWires
  /\ pc' = "drain"
  /\ UNCHANGED <<app, drain, pos, retryOf, fallbackMsg, outcome>>
  /\ TurnFrame

\* the drain threw: the retry is awaited, or the call rejects
TurnCatch(t, c) ==
  IF IsStreamBreakdown(c.error)
    THEN /\ pc' = "retry"
         /\ retryOf' = "stream"
         /\ fallbackMsg' = c.error
         /\ app' = [t EXCEPT !.event = "read"]
         /\ UNCHANGED outcome
    ELSE /\ Rejects(t, c.error)
         /\ UNCHANGED <<retryOf, fallbackMsg>>

\* the consumer after the callbacks the drain called since the last read
Delivered(c) ==
  Deliver(app, app.assistantId,
          SubSeq(c.calls, Len(drain.calls) + 1, Len(c.calls)))

\* after a read that left the drain as c and the consumer as t: the loop
\* goes on, or the drain threw
ReadContinues(c, t) ==
  IF c.thrown
    THEN TurnCatch(t, c)
    ELSE /\ app' = [t EXCEPT !.event = "read"]
         /\ UNCHANGED <<pc, retryOf, fallbackMsg, outcome>>

\* the read took n atoms of whole frames and left the drain as c
ReadTook(c, n) ==
  /\ c.buffer = <<>>
  /\ drain' = c
  /\ pos' = pos + n
  /\ ReadContinues(c, Delivered(c))

\* a read yields the next frames of the stream; the callbacks of their
\* dispatch run within the read
TurnReads ==
  /\ pc = "drain"
  /\ \E n \in 1..(Len(wire) - pos) :
       ReadTook(consume([drain EXCEPT
                           !.buffer = @ \o SubSeq(wire, pos + 1, pos + n)],
                        options.onThinking), n)
  /\ UNCHANGED wire
  /\ TurnFrame

\* the drain returned the ChatResponse f.response and is left as f.c
EndResolves(f) ==
  /\ drain' = f.c
  /\ Resolves(Delivered(f.c), f.response)
  /\ UNCHANGED <<retryOf, fallbackMsg>>

\* the end of the stream left the drain as c
EndTook(c) ==
  IF c.thrown
    THEN /\ drain' = c
         /\ TurnCatch(Delivered(c), c)
    ELSE EndResolves(Finish(c, options.onThinking))

\* the read that reports the end of the stream
TurnReadsEnd ==
  /\ pc = "drain"
  /\ pos = Len(wire)
  /\ EndTook(FlushTail(drain, options.onThinking))
  /\ UNCHANGED <<wire, pos>>
  /\ TurnFrame

\* the retry without streaming got 2xx
TurnRetryAnswers ==
  /\ pc = "retry"
  /\ \E body \in TurnBodies :
       Resolves(app, interpretParsedResponse(safeJsonParse(body)))
  /\ UNCHANGED <<drain, wire, pos, retryOf, fallbackMsg>>
  /\ TurnFrame

\* the retry without streaming got a status that is not 2xx
TurnRetryFails ==
  /\ pc = "retry"
  /\ Rejects(app, OrElse(fallbackMsg, HttpStatusText(500)))
  /\ UNCHANGED <<drain, wire, pos, retryOf, fallbackMsg>>
  /\ TurnFrame

\* the browser runs the callbacks of the animation frames requested so far
TurnAnimationFrame ==
  /\ app.frames # <<>>
  /\ app' = [RunFrames([app EXCEPT !.frames = <<>>], app.frames)
               EXCEPT !.event = "frame"]
  /\ UNCHANGED <<pc, drain, wire, pos, retryOf, fallbackMsg, outcome>>
  /\ TurnFrame

\* the most resets of a conversation
MaxTurnResets == 1

\* the finally clause of resetConversation
clearConversation(t) ==
  [t EXCEPT !.messages = <<>>, !.sessionId = @ + 1, !.resetting = FALSE,
            !.event = "cleared"]

\* resetConversation up to its await: nothing while loading or resetting;
\* a build without DEV has nothing to await
resetConversation(t) ==
  IF t.loading \/ t.resetting THEN t
  ELSE IF t.dev THEN [t EXCEPT !.resetting = TRUE, !.event = "reset"]
  ELSE clearConversation([t EXCEPT !.resetting = TRUE])

\* the reset button is pressed
TurnReset ==
  /\ app.sessionId < MaxTurnResets
  /\ app' = resetConversation(app)
  /\ UNCHANGED <<pc, drain, wire, pos, retryOf, fallbackMsg, outcome>>
  /\ TurnFrame

\* a DEV build: the fetch of /api/reset settled
TurnResetCompletes ==
  /\ app.resetting
  /\ app' = clearConversation(app)
  /\ UNCHANGED <<pc, drain, wire, pos, retryOf, fallbackMsg, outcome>>
  /\ TurnFrame

NextTurn ==
  \/ TurnSends
  \/ TurnRejects
  \/ TurnAnswersBody
  \/ TurnStreams
  \/ TurnReads
  \/ TurnReadsEnd
  \/ TurnRetryAnswers
  \/ TurnRetryFails
  \/ TurnAnimationFrame
  \/ TurnReset
  \/ TurnResetCompletes

SpecTurn == InitTurn /\ [][NextTurn]_vars

\* the ids of the entries of both maps
BufferKeys(t) == DOMAIN t.streamBuffers \cup DOMAIN t.thinkingBuffers

\* the step ran callbacks of the core or callbacks of animation frames
CallbackStep == app' # app /\ app'.event \in {"read", "frame"}

\* the turns whose callbacks the step ran: the turn in flight for the
\* callbacks of the core, the turns of the frames for a frame
TurnsOfStep ==
  IF app'.event = "read" THEN {app.assistantId}
  ELSE {app.frames[i].assistantId : i \in 1..Len(app.frames)}

\* the entry of key in map, or none
EntryOf(map, key) == IF key \in DOMAIN map THEN map[key] ELSE JUndef

\* the message with the id, or none
MessageOf(messages, id) ==
  IF \E i \in 1..Len(messages) : messages[i].id = id
    THEN messages[CHOOSE i \in 1..Len(messages) : messages[i].id = id]
    ELSE JUndef

MessageIds(messages) == {messages[i].id : i \in 1..Len(messages)}

(***************************************************************************)
(* C33: the buffers are private to a turn. Every entry of the stream map   *)
(* and of the thinking map is keyed by the id of the assistant message of  *)
(* the turn that set it, and the frame of an entry is a flush of that      *)
(* turn; a step that runs callbacks of the core or callbacks of animation  *)
(* frames changes no entry and no message but those of the turns whose     *)
(* callbacks it ran.                                                       *)
(***************************************************************************)
C33_BuffersPrivate ==
  [][/\ \A key \in BufferKeys(app') :
          /\ key = app'.assistantId
          /\ \A map \in {app'.streamBuffers, app'.thinkingBuffers} :
               key \in DOMAIN map /\ map[key].raf # JNull
                 => map[key].raf.assistantId = key
     /\ CallbackStep =>
          /\ \A key \in (BufferKeys(app) \cup BufferKeys(app')) \ TurnsOfStep :
               /\ EntryOf(app'.streamBuffers, key) = EntryOf(app.streamBuffers, key)
               /\ EntryOf(app'.thinkingBuffers, key)
                    = EntryOf(app.thinkingBuffers, key)
          /\ \A id \in (MessageIds(app.messages) \cup MessageIds(app'.messages))
                         \ TurnsOfStep :
               MessageOf(app'.messages, id) = MessageOf(app.messages, id)]_vars

\* a frame of the second turn has written its assistant message, and the
\* message of the first turn is still there
C33_Witness ==
  /\ app.event = "frame"
  /\ app.assistantId = 4
  /\ Len(app.messages) = 4
  /\ app.messages[4].content = <<"a">>
  /\ app.messages[2].content = <<"A">>

\* the step is the end of a turn: the statements after the await, or the
\* catch clause, with the finally clause
SettleStep == app.loading /\ app'.event \in {"commit", "error"}

\* the frames requested by the turn of assistantId that are still to run
FramesOf(t, assistantId) ==
  {i \in 1..Len(t.frames) : t.frames[i].assistantId = assistantId}

(***************************************************************************)
(* C36: when a turn settles, by success or by failure, its entries are     *)
(* removed from the stream map and from the thinking map and its pending   *)
(* animation frames are cancelled; whenever no turn is in flight both maps *)
(* are empty and no frame is pending, and a step taken while no turn is in *)
(* flight leaves the messages committed so far as they are unless it       *)
(* starts a turn or clears the conversation.                               *)
(***************************************************************************)
C36_SettleDropsBuffers ==
  [][/\ SettleStep =>
          /\ app.assistantId \notin BufferKeys(app')
          /\ FramesOf(app', app.assistantId) = {}
     /\ ~app'.loading => BufferKeys(app') = {} /\ app'.frames = <<>>
     /\ ~app.loading /\ ~(app'.event \in {"send", "cleared"})
          => app'.messages = app.messages]_vars

\* a streaming turn was committed while the frame of its last thinking
\* notification was pending
C36_Witness ==
  /\ app.event = "commit"
  /\ drain.calls # <<>>
  /\ drain.calls[Len(drain.calls)].done
  /\ app.frames = <<>>
  /\ BufferKeys(app) = {}

\* the callbacks of the core with the frame of each run right after it
RECURSIVE Immediately(_, _, _)
Immediately(t, assistantId, calls) ==
  IF calls = <<>> THEN t
  ELSE LET called == Deliver(t, assistantId, <<Head(calls)>>)
       IN Immediately(RunFrames([called EXCEPT !.frames = <<>>], called.frames),
                      assistantId, Tail(calls))

\* the assistant message of a turn of its own that got the callbacks calls,
\* each flushed at once, and then resolved with response
ImmediateMessage(calls, response) ==
  LET sending == sendMessage(NewTurnState(FALSE), <<"q">>)
      t == commitReply(Immediately(sending, sending.assistantId, calls),
                       sending.assistantId, response)
  IN MessageOf(t.messages, sending.assistantId)

\* the turn that was in flight has just been committed after callbacks of
\* the core, and its assistant message is in the conversation
StreamedCommit ==
  /\ app.event = "commit"
  /\ drain.calls # <<>>
  /\ MessageOf(app.messages, app.assistantId) # JUndef

(***************************************************************************)
(* C32: batching by animation frames does not change the outcome. The      *)
(* assistant message committed at the end of a successful streaming turn   *)
(* has the content and the thinking text it would have if the flush of     *)
(* every callback had run right after the callback, whichever frames ran   *)
(* before the call settled.                                                *)
(***************************************************************************)
C32_BatchingDoesNotMatter ==
  StreamedCommit =>
    LET committed == MessageOf(app.messages, app.assistantId)
        immediate == ImmediateMessage(drain.calls,
                                      [reply |-> outcome.reply,
                                       structuredData |-> outcome.structuredData])
    IN /\ committed.content = immediate.content
       /\ committed.thinking = immediate.thinking

\* the content alone does not depend on the frames
C32_ContentDoesNotDepend ==
  StreamedCommit =>
    MessageOf(app.messages, app.assistantId).content
      = ImmediateMessage(drain.calls,
                         [reply |-> outcome.reply,
                          structuredData |-> outcome.structuredData]).content

\* the step is the catch clause of sendMessage: the turn failed
FailStep == app.loading /\ app'.event = "error"

\* the catch clause wrote the error into the assistant message of the turn
\* and left every other message as it was
ErrorShown ==
  LET shown == MessageOf(app'.messages, app.assistantId)
  IN /\ shown # JUndef
     /\ shown.content # <<>> /\ Head(shown.content) = "Error: "
     /\ shown.structuredData = JUndef
     /\ MessageIds(app'.messages) = MessageIds(app.messages)
     /\ \A id \in MessageIds(app.messages) \ {app.assistantId} :
          MessageOf(app'.messages, id) = MessageOf(app.messages, id)

(***************************************************************************)
(* C31: when a turn fails, that is when invokeAgent rejects, the assistant *)
(* message of the turn gets a content that starts with 'Error: ' and no    *)
(* structuredData, and every other message of the conversation, the prior  *)
(* turns and the user message of the turn, is left unchanged.              *)
(***************************************************************************)
C31_FailureShown == [][FailStep => ErrorShown]_vars

\* the same, for the turns whose messages were not cleared by a reset that
\* completed while they were in flight
C31_FailureShownUnlessCleared ==
  [][FailStep /\ MessageOf(app.messages, app.assistantId) # JUndef
       => ErrorShown]_vars

(***************************************************************************)
(* C38: at most one turn is in flight at a time. While loading is true no  *)
(* step starts a turn, adds a message or removes one, and none changes the *)
(* session id: the message list and the session of the call in flight are  *)
(* not changed under it.                                                   *)
(***************************************************************************)
C38_OneTurnInFlight ==
  [][app.loading =>
       /\ app'.turns = app.turns
       /\ MessageIds(app'.messages) = MessageIds(app.messages)
       /\ app'.sessionId = app.sessionId]_vars

\* the same, for a build without DEV, where resetConversation awaits nothing
C38_OneTurnInFlightWithoutDev ==
  [][app.loading /\ ~app.dev =>
       /\ app'.turns = app.turns
       /\ MessageIds(app'.messages) = MessageIds(app.messages)
       /\ app'.sessionId = app.sessionId]_vars

\* the turns are never started while loading, in either build
C38_NoTurnStartedWhileLoading ==
  [][app.loading =>
       /\ app'.turns = app.turns
       /\ Len(app'.messages) <= Len(app.messages)]_vars

\* the step starts a turn
SendStep == ~app.loading /\ app'.event = "send" /\ app'.turns = app.turns + 1

\* sendMessage appended the user message and the assistant message of the
\* turn, and nothing else
TwoMessagesAdded ==
  /\ Len(app'.messages) = Len(app.messages) + 2
  /\ SubSeq(app'.messages, 1, Len(app.messages)) = app.messages
  /\ app'.messages[Len(app.messages) + 1].role = "user"
  /\ app'.messages[Len(app.messages) + 2].role = "assistant"
  /\ app'.messages[Len(app.messages) + 2].id = app'.assistantId

\* the turn ended with loading cleared and its assistant message marked
TurnClosed ==
  /\ ~app'.loading
  /\ MessageOf(app'.messages, app.assistantId) # JUndef
  /\ MessageOf(app'.messages, app.assistantId).thinkingDone

(***************************************************************************)
(* C39: every turn whose invokeAgent call settles, by success or by any    *)
(* failure, ends with loading = false and with its assistant message       *)
(* marked thinkingDone = true, and every turn adds exactly one user        *)
(* message and one assistant message to the conversation. The statements   *)
(* after the await, the catch clause and the finally clause run in the     *)
(* step in which the call settles.                                         *)
(***************************************************************************)
C39_TurnsClose ==
  [][/\ SendStep => TwoMessagesAdded
     /\ SettleStep => TurnClosed]_vars

\* the same, for the turns whose messages were not cleared by a reset that
\* completed while they were in flight
C39_TurnsCloseUnlessCleared ==
  [][/\ SendStep => TwoMessagesAdded
     /\ SettleStep /\ MessageOf(app.messages, app.assistantId) # JUndef
          => TurnClosed]_vars

(***************************************************************************)
(* The citation handler of the App component: the one slot                 *)
(* globalCitationHandlerRef, the structured messages that register their   *)
(* handleCitationClick in it, and the citations of the messages            *)
(***************************************************************************)
\* the messages of the list: a message without structuredData, whose
\* citations call triggerCitationPanel, and structured messages with and
\* without documents, whose citations call their own handleCitationClick
RegistryMessages ==
  { [structured |-> FALSE, documents |-> JUndef],
    [structured |-> TRUE, documents |-> JArr(<<>>)],
    [structured |-> TRUE,
     documents |-> JArr(<<[id |-> <<"d", "2">>, citation_number |-> JNum(1)]>>)] }

\* the most messages of the list
MaxMessages == 3

\* the panel of a message: a message without structuredData has none
PanelOf(message) ==
  IF message.structured THEN NewPanel(message.documents) ELSE JNull

InitRegistry ==
  /\ pc = "idle"
  /\ options = [onChunk |-> FALSE, onThinking |-> FALSE]
  /\ requests = <<>>
  /\ responses = <<>>
  /\ drain = NewDrain
  /\ wire = <<>>
  /\ pos = 0
  /\ retryOf = "none"
  /\ fallbackMsg = <<>>
  /\ outcome = Pending
  /\ token = "unset"
  /\ req = [sessionId |-> JUndef]
  /\ sessionId = <<>>
  /\ sent = <<>>
  /\ app = Unmounted
  /\ input = JUndef
  /\ output = [k |-> "registry", messages |-> <<>>, panels |-> <<>>,
               globalCitationHandler |-> 0, event |-> "none", message |-> 0]

\* registerCitationHandler(handler): handler is the index of the message
\* whose handleCitationClick is registered, 0 for null
registerCitationHandler(registry, handler) ==
  [registry EXCEPT !.globalCitationHandler = handler]

\* the handler of the message index runs
runHandler(registry, index, citationNumber) ==
  [registry EXCEPT
     !.panels[index] = handleCitationClick(@, registry.messages[index].documents,
                                           citationNumber)]

\* triggerCitationPanel(citationNumber)
triggerCitationPanel(registry, citationNumber) ==
  IF registry.globalCitationHandler # 0
    THEN runHandler(registry, registry.globalCitationHandler, citationNumber)
    ELSE registry

\* onCitationClick of the TextWithCitations of the message index
activateCitation(registry, index, citationNumber) ==
  IF registry.messages[index].structured
    THEN runHandler(registry, index, citationNumber)
    ELSE triggerCitationPanel(registry, citationNumber)

\* a message is rendered at the end of the list; the effect of a
\* StructuredMessage registers its handler
RegistryMount ==
  /\ Len(output.messages) < MaxMessages
  /\ \E message \in RegistryMessages :
       LET mounted == [output EXCEPT !.messages = Append(@, message),
                                     !.panels = Append(@, PanelOf(message)),
                                     !.event = "mount",
                                     !.message = Len(output.messages) + 1]
       IN output' = IF message.structured
                      THEN registerCitationHandler(mounted,
                                                   Len(output.messages) + 1)
                      ELSE mounted
  /\ Idle

\* the conversation is reset: the messages are unmounted, and the cleanup
\* of the effect of every StructuredMessage registers null
RegistryClear ==
  /\ output.messages # <<>>
  /\ LET cleared == [output EXCEPT !.messages = <<>>, !.panels = <<>>,
                                   !.event = "clear", !.message = 0]
     IN output' = IF \E i \in 1..Len(output.messages) :
                       output.messages[i].structured
                    THEN registerCitationHandler(cleared, 0)
                    ELSE cleared
  /\ Idle

\* the panel the activation of a citation of the message index acts on, or
\* 0 when it acts on none
TargetOf(registry, index) ==
  IF registry.messages[index].structured THEN index
  ELSE registry.globalCitationHandler

\* the user activates a citation rendered in a message
RegistryActivate ==
  /\ \E index \in 1..Len(output.messages), citationNumber \in {1, 7} :
       /\ TargetOf(output, index) # 0
            => output.panels[TargetOf(output, index)].frames < MaxPendingFrames
       /\ output' = [activateCitation(output, index, citationNumber)
                       EXCEPT !.event = "activate", !.message = index]
  /\ Idle

\* a requested animation frame of the panel of a message runs
RegistryFrame ==
  /\ \E index \in 1..Len(output.messages) :
       /\ output.messages[index].structured
       /\ output.panels[index].frames > 0
       /\ output' = [output EXCEPT
                       !.panels[index].documentsOpen = TRUE,
                       !.panels[index].frames = @ - 1,
                       !.event = "frame", !.message = index]
  /\ Idle

NextRegistry ==
  \/ RegistryMount
  \/ RegistryClear
  \/ RegistryActivate
  \/ RegistryFrame

SpecRegistry == InitRegistry /\ [][NextRegistry]_vars

\* the step is the activation of a citation rendered in a message
ActivationStep == output'.event = "activate" /\ output' # output

\* the activation left the panels of the other messages as they were
OtherPanelsUntouched ==
  \A j \in 1..Len(output.panels) :
    j # output'.message => output'.panels[j] = output.panels[j]

(***************************************************************************)
(* C40: the activation of a citation is resolved against the documents of  *)
(* the message in which the citation is rendered only: whatever messages   *)
(* registered and unregistered their handler before, it opens, expands and *)
(* highlights no document of another message.                              *)
(***************************************************************************)
C40_OwnDocumentsOnly == [][ActivationStep => OtherPanelsUntouched]_vars

\* the same for the citations of the structured messages, which are given
\* the handler of their own message
C40_StructuredOwnDocumentsOnly ==
  [][ActivationStep /\ output.messages[output'.message].structured
       => OtherPanelsUntouched]_vars

====
